---- MODULE Spec2Model ----
(***************************************************************************)
(* Deep-link ingestion, deduplication and listener fan-out of the Linkzly  *)
(* React Native SDK (src/src/index.tsx, class LinkzlySDK).                 *)
(*                                                                         *)
(* JavaScript strings are modelled as tuples of one-character strings, so  *)
(* that splitting and matching are computed and not assumed.  The values   *)
(* undefined and null are the one-element tuples UNDEF and NULL, which no  *)
(* string of characters equals.  A JavaScript object with string keys is a *)
(* tuple of <<key, value>> pairs in insertion order.                       *)
(***************************************************************************)
EXTENDS Integers, Sequences, FiniteSets, Bags, TLC

UNDEF == <<"undefined">>
NULL == <<"null">>

\* JavaScript truthiness of a string-or-absent value: undefined, null and ""
\* are falsy.
Truthy(v) == v # UNDEF /\ v # NULL /\ v # <<>>

\* a || b
Or(a, b) == IF Truthy(a) THEN a ELSE b

(***************************************************************************)
(* String helpers                                                          *)
(***************************************************************************)

\* Index of the first occurrence of character c in s, 0 when there is none.
RECURSIVE IndexFrom(_, _, _)
IndexFrom(s, c, i) ==
    IF i > Len(s) THEN 0
    ELSE IF s[i] = c THEN i
    ELSE IndexFrom(s, c, i + 1)

IndexOf(s, c) == IndexFrom(s, c, 1)

\* String.prototype.split(c) for a one-character separator: always at least
\* one piece, empty pieces kept.
RECURSIVE Split(_, _)
Split(s, c) ==
    LET i == IndexOf(s, c)
    IN  IF i = 0 THEN <<s>>
        ELSE <<SubSeq(s, 1, i - 1)>> \o Split(SubSeq(s, i + 1, Len(s)), c)

(***************************************************************************)
(* decodeURIComponent.  A "%" must be followed by two hexadecimal digits;  *)
(* a pair below 80 is one ASCII character.  A pair of 80 or above is a     *)
(* byte of a UTF-8 sequence; the model decodes none of those and reports   *)
(* the URIError that a lone such byte raises.                              *)
(***************************************************************************)
HexDigits ==
    {"0", "1", "2", "3", "4", "5", "6", "7", "8", "9",
     "a", "b", "c", "d", "e", "f", "A", "B", "C", "D", "E", "F"}

LowHex == {"0", "1", "2", "3", "4", "5", "6", "7"}

\* The character an ASCII escape stands for.
AsciiOf(h, l) ==
    CASE h = "2" /\ l = "5" -> "%"
      [] h = "2" /\ l = "6" -> "&"
      [] h = "2" /\ l \in {"f", "F"} -> "/"
      [] h = "3" /\ l = "1" -> "1"
      [] h = "3" /\ l \in {"d", "D"} -> "="
      [] h = "3" /\ l \in {"f", "F"} -> "?"
      [] h = "6" /\ l = "1" -> "a"
      [] OTHER -> "%" \o h \o l

RECURSIVE DecodeFrom(_, _)
DecodeFrom(s, i) ==
    IF i > Len(s) THEN [ok |-> TRUE, v |-> <<>>]
    ELSE IF s[i] # "%"
    THEN LET rest == DecodeFrom(s, i + 1)
         IN  IF rest.ok THEN [ok |-> TRUE, v |-> <<s[i]>> \o rest.v] ELSE rest
    ELSE IF i + 2 > Len(s) \/ s[i + 1] \notin LowHex \/ s[i + 2] \notin HexDigits
    THEN [ok |-> FALSE, v |-> <<>>]
    ELSE LET rest == DecodeFrom(s, i + 3)
         IN  IF rest.ok
             THEN [ok |-> TRUE, v |-> <<AsciiOf(s[i + 1], s[i + 2])>> \o rest.v]
             ELSE rest

decodeURIComponent(s) == DecodeFrom(s, 1)

(***************************************************************************)
(* JavaScript objects with string keys: tuples of <<key, value>> pairs.    *)
(***************************************************************************)
Keys(obj) == {obj[i][1] : i \in DOMAIN obj}

HasKey(obj, k) == k \in Keys(obj)

\* obj[k], undefined when k is no key.
Get(obj, k) ==
    IF HasKey(obj, k)
    THEN obj[CHOOSE i \in DOMAIN obj : obj[i][1] = k][2]
    ELSE UNDEF

\* obj[k] = v: an existing key keeps its position, a new key goes last.
Put(obj, k, v) ==
    IF HasKey(obj, k)
    THEN [i \in DOMAIN obj |-> IF obj[i][1] = k THEN <<k, v>> ELSE obj[i]]
    ELSE Append(obj, <<k, v>>)

\* delete obj[k]
RECURSIVE Delete(_, _)
Delete(obj, k) ==
    IF obj = <<>> THEN <<>>
    ELSE IF Head(obj)[1] = k THEN Delete(Tail(obj), k)
    ELSE <<Head(obj)>> \o Delete(Tail(obj), k)

\* {...a, ...b}
RECURSIVE Spread(_, _)
Spread(a, b) ==
    IF b = <<>> THEN a
    ELSE Spread(Put(a, Head(b)[1], Head(b)[2]), Tail(b))

\* Deep equality of two such objects: the same keys with the same values.
DeepEqual(a, b) ==
    /\ Keys(a) = Keys(b)
    /\ \A k \in Keys(a) : Get(a, k) = Get(b, k)

\* JSON.stringify of an object whose values are strings: the members in
\* insertion order.  Characters are kept as they are (the model's alphabet
\* holds no character JSON escapes), so a string is its tuple of characters.
RECURSIVE StringifyMembers(_)
StringifyMembers(obj) ==
    IF obj = <<>> THEN <<>>
    ELSE LET m == <<"\"">> \o Head(obj)[1] \o <<"\"", ":", "\"">>
                  \o Head(obj)[2] \o <<"\"">>
         IN  IF Len(obj) = 1 THEN m
             ELSE m \o <<",">> \o StringifyMembers(Tail(obj))

JSONStringify(obj) == <<"{">> \o StringifyMembers(obj) \o <<"}">>

(***************************************************************************)
(* parseUrlToDeepLinkData                                                  *)
(***************************************************************************)
KEY_slid == <<"s", "l", "i", "d">>
KEY_smartLinkId == <<"s", "m", "a", "r", "t", "L", "i", "n", "k", "I", "d">>
KEY_cid == <<"c", "i", "d">>
KEY_clickId == <<"c", "l", "i", "c", "k", "I", "d">>

ReservedKeys == {KEY_slid, KEY_smartLinkId, KEY_cid, KEY_clickId}

\* The text after "scheme://" when s starts with one or more characters
\* other than ":" followed by "://" (the common prefix of both regular
\* expressions), and UNDEF when it does not.
AfterScheme(s) ==
    LET i == IndexOf(s, ":")
    IN  IF i >= 2 /\ i + 2 <= Len(s) /\ s[i + 1] = "/" /\ s[i + 2] = "/"
        THEN SubSeq(s, i + 3, Len(s))
        ELSE UNDEF

\* Group 1 of /^[^:]+:\/\/[^\/]+(\/.*)?$/, UNDEF when there is no match or
\* the group did not take part.
StandardMatch1(s) ==
    LET r == AfterScheme(s)
    IN  IF r = UNDEF \/ r = <<>> THEN UNDEF
        ELSE IF r[1] = "/" THEN UNDEF
        ELSE LET j == IndexOf(r, "/")
             IN  IF j = 0 THEN UNDEF ELSE SubSeq(r, j, Len(r))

\* Group 1 of /^[^:]+:\/\/(.+)$/, UNDEF when there is no match.
CustomMatch1(s) ==
    LET r == AfterScheme(s)
    IN  IF r = UNDEF \/ r = <<>> THEN UNDEF ELSE r

ExtractPath(urlWithoutQuery) ==
    LET std == StandardMatch1(urlWithoutQuery)
        cus == CustomMatch1(urlWithoutQuery)
    IN  IF std # UNDEF THEN std
        ELSE IF cus # UNDEF THEN <<"/">> \o cus
        ELSE <<"/">>

\* One step of params.forEach: const [key, value] = param.split('=')
AddParam(parameters, param) ==
    LET kv == Split(param, "=")
        key == kv[1]
        value == IF Len(kv) >= 2 THEN kv[2] ELSE UNDEF
        dk == decodeURIComponent(key)
        dv == decodeURIComponent(value)
    IN  IF ~(Truthy(key) /\ Truthy(value)) THEN parameters
        ELSE IF dk.ok /\ dv.ok THEN Put(parameters, dk.v, dv.v)
        ELSE Put(parameters, key, value)

RECURSIVE AddParams(_, _)
AddParams(parameters, params) ==
    IF params = <<>> THEN parameters
    ELSE AddParams(AddParam(parameters, Head(params)), Tail(params))

ExtractParameters(url) ==
    LET urlParts == Split(url, "?")
    IN  IF Len(urlParts) > 1
        THEN AddParams(<<>>, Split(urlParts[2], "&"))
        ELSE <<>>

\* parseUrlToDeepLinkData reading smartLinkId before slid and clickId before
\* cid.
parseUrlToDeepLinkData_LongKeysFirst(url) ==
    LET urlParts == Split(url, "?")
        path == ExtractPath(urlParts[1])
        parameters == ExtractParameters(url)
        smartLinkId == Or(Or(Get(parameters, KEY_smartLinkId),
                             Get(parameters, KEY_slid)), UNDEF)
        clickId == Or(Or(Get(parameters, KEY_clickId),
                         Get(parameters, KEY_cid)), UNDEF)
    IN  [url |-> url,
         path |-> path,
         parameters |-> Delete(Delete(Delete(Delete(parameters, KEY_slid),
                           KEY_smartLinkId), KEY_cid), KEY_clickId),
         smartLinkId |-> smartLinkId,
         clickId |-> clickId]

\* parseUrlToDeepLinkData returning the url without its query.
parseUrlToDeepLinkData_UrlWithoutQuery(url) ==
    LET urlParts == Split(url, "?")
        path == ExtractPath(urlParts[1])
        parameters == ExtractParameters(url)
        smartLinkId == Or(Or(Get(parameters, KEY_slid),
                             Get(parameters, KEY_smartLinkId)), UNDEF)
        clickId == Or(Or(Get(parameters, KEY_cid),
                         Get(parameters, KEY_clickId)), UNDEF)
    IN  [url |-> urlParts[1],
         path |-> path,
         parameters |-> Delete(Delete(Delete(Delete(parameters, KEY_slid),
                           KEY_smartLinkId), KEY_cid), KEY_clickId),
         smartLinkId |-> smartLinkId,
         clickId |-> clickId]

parseUrlToDeepLinkData(url) ==
    LET urlParts == Split(url, "?")
        path == ExtractPath(urlParts[1])
        parameters == ExtractParameters(url)
        smartLinkId == Or(Or(Get(parameters, KEY_slid),
                             Get(parameters, KEY_smartLinkId)), UNDEF)
        clickId == Or(Or(Get(parameters, KEY_cid),
                         Get(parameters, KEY_clickId)), UNDEF)
    IN  [url |-> url,
         path |-> path,
         parameters |-> Delete(Delete(Delete(Delete(parameters, KEY_slid),
                           KEY_smartLinkId), KEY_cid), KEY_clickId),
         smartLinkId |-> smartLinkId,
         clickId |-> clickId]

(***************************************************************************)
(* mergeDeepLinkData                                                       *)
(***************************************************************************)
\* mergeDeepLinkData with the two spreads of parameters exchanged.
mergeDeepLinkData_PrimaryOverrides(primary, secondary) ==
    IF secondary = <<>> THEN primary
    ELSE [url |-> Or(secondary[1].url, primary.url),
          path |-> Or(secondary[1].path, primary.path),
          smartLinkId |-> Or(secondary[1].smartLinkId, primary.smartLinkId),
          clickId |-> Or(secondary[1].clickId, primary.clickId),
          parameters |-> Spread(secondary[1].parameters, primary.parameters)]

\* secondary is <<>> for null and <<record>> otherwise.
mergeDeepLinkData(primary, secondary) ==
    IF secondary = <<>> THEN primary
    ELSE [url |-> Or(secondary[1].url, primary.url),
          path |-> Or(secondary[1].path, primary.path),
          smartLinkId |-> Or(secondary[1].smartLinkId, primary.smartLinkId),
          clickId |-> Or(secondary[1].clickId, primary.clickId),
          parameters |-> Spread(primary.parameters, secondary[1].parameters)]

(***************************************************************************)
(* The model's universe                                                    *)
(***************************************************************************)

\* "a://h/p?x=1&y=2": host and path, two query parameters.
U1 == <<"a", ":", "/", "/", "h", "/", "p", "?", "x", "=", "1", "&", "y", "=", "2">>
\* "b://q": custom scheme, no query.
U2 == <<"b", ":", "/", "/", "q">>

\* "c://r?slid=7": the query carries an attribution id.
U3 == <<"c", ":", "/", "/", "r", "?", "s", "l", "i", "d", "=", "7">>

URLs == {U1, U2}

\* Deep-link listeners of the application.  LT throws whenever it is called;
\* LR registers L1 (addDeepLinkListener) from inside its callback.
Listeners == {"L1", "LT", "LR"}
\* Universal-link listeners of the application.  VT throws whenever it is
\* called.
UniversalListeners == {"V1", "VT"}
Throwing == {"LT", "VT"}
Registrar == "LR"
Registered == "L1"

\* The url that opened the app (Linking.getInitialURL()).  An app that was
\* not opened by a link behaves like one whose query never settles.
InitialURL == U1

\* Bounds of the exploration.
MaxTicks == 1
MaxPrimary == 2
MaxNative == 1
MaxConfigure == 1
MaxInflight == 1
MaxQueries == 1
MaxRegistrations == 4

\* Elapsed times between two events, in ms: just inside and just outside
\* the two dedup windows.  A specification that does not look at the edges
\* of the windows advances the clock by fewer of them.
Deltas == {1999, 2000, 4999, 5000}

URL_PROCESSING_DEDUP_WINDOW_MS == 5000
NATIVE_EVENT_DEDUP_WINDOW_MS == 2000
MAX_AGE_MS == 60 * 60 * 1000

RECURSIVE Reverse(_)
Reverse(s) == IF s = <<>> THEN <<>> ELSE Append(Reverse(Tail(s)), Head(s))

\* parseUrlToDeepLinkData on the urls of the model, computed once.
ParsedOf == [u \in URLs \cup {U3} |-> parseUrlToDeepLinkData(u)]

\* What the native layer may answer to handleAppLink / handleUniversalLink
\* for url: nothing (iOS always, Android when the SDK has no data), or a
\* record of that url carrying the attribution id.
EnrichedRecord(url) == [ParsedOf[url] EXCEPT !.smartLinkId = <<"s", "1">>]

HandleLinkResults ==
    [url \in DOMAIN ParsedOf |-> {<<>>, <<EnrichedRecord(url)>>}]

\* Payloads of the native LinkzlyDeepLinkReceived event for url: the fields
\* of the link as the parser sees them, the same with the parameters in
\* another key order, and the backend-enriched record.
ReorderedRecord(url) == [ParsedOf[url] EXCEPT !.parameters = Reverse(@)]

DeepLinkEvents ==
    [url \in DOMAIN ParsedOf |->
        {ParsedOf[url], ReorderedRecord(url), EnrichedRecord(url)}]

\* The record of url of a native SDK that keeps the query parameters as
\* they are in the url: the bridges copy the parameters of the native
\* record into the payload unchanged.
RawRecord(url) == [ParsedOf[url] EXCEPT !.parameters = ExtractParameters(url)]

\* The payload the iOS bridge builds for a deep link of url whose
\* notification carries no "url" entry: the key is left out, and data.url
\* is undefined in the handler.
UrlLessRecord(url) == [ParsedOf[url] EXCEPT !.url = UNDEF]

\* Payloads of the native LinkzlyUniversalLinkReceived event for url.
UniversalLinkEvents ==
    [url \in DOMAIN ParsedOf |->
        {[url |-> url, attributionData |-> <<>>],
         [url |-> url,
          attributionData |-> <<<<KEY_slid, <<"s", "1">>>>>>]}]

(***************************************************************************)
(* State                                                                   *)
(***************************************************************************)
VARIABLES
    clock,                  \* Date.now()
    ticks,                  \* number of clock advances so far
    deepLinkListeners,      \* Set<DeepLinkListener>, in insertion order
    deepLinkSubscription,   \* TRUE when the native event subscription exists
    universalLinkListeners, \* Set<UniversalLinkListener>, in insertion order
    universalLinkSubscription,
    linkingSubscription,    \* TRUE when the Linking 'url' subscription exists
    isAutoHandlingEnabled,
    isConfigured,
    pendingUrl,             \* NULL or the stashed url
    processedUrls,          \* Map<string, number>: a function on its keys
    lastDeepLinkData,       \* <<>> for null, <<record>> otherwise
    pendingAttributionUrls, \* Set<string>
    inflight,               \* bag of processDeepLink calls awaiting handleUniversalLink
    configuring,            \* number of configure calls awaiting the native call
    initialQueries,         \* Linking.getInitialURL() promises not yet settled
    unsubs,                 \* listeners for which an unsubscribe closure exists
    registrations,          \* every add...Listener call so far, and its fate
    calls,                  \* listener invocations made by the last step
    opens,                  \* automatic trackOpen calls, configure rejections, skipped urls
                            \* of the last step
    notified,               \* notifyDeepLinkListeners calls made by the last step
    reports,                \* the reports of the observed url received so far
    delivered,              \* the notifications delivered for the observed url
    probe,                  \* a call of a function without state: its name,
                            \* its arguments and, in a tuple, its result
    eventEmitter,           \* iOS bridge: TRUE when the emitter is connected
    hasListeners,           \* iOS bridge: JS listens to the emitter
    pendingEvents,          \* iOS bridge: the queued events
    raisedEvents,           \* the events the iOS bridge was asked to emit
    sentEvents              \* the events it passed to emitter.sendEvent

vars ==
    <<clock, ticks, deepLinkListeners, deepLinkSubscription,
      universalLinkListeners, universalLinkSubscription, registrations,
      opens, linkingSubscription, isAutoHandlingEnabled, isConfigured, pendingUrl,
      processedUrls, lastDeepLinkData, pendingAttributionUrls, inflight,
      configuring, initialQueries, unsubs, calls, notified, reports,
      delivered, probe, eventEmitter, hasListeners, pendingEvents,
      raisedEvents, sentEvents>>

\* The state of the iOS bridge (LinkzlyReactNativeSwift.shared).
swift == <<eventEmitter, hasListeners, pendingEvents, raisedEvents, sentEvents>>

\* The fields of the LinkzlySDK instance and of the event loop around it, as
\* one record the handlers below transform.  calls and notified start empty
\* in every step.
Sdk ==
    [deepLinkListeners |-> deepLinkListeners,
     deepLinkSubscription |-> deepLinkSubscription,
     universalLinkListeners |-> universalLinkListeners,
     universalLinkSubscription |-> universalLinkSubscription,
     linkingSubscription |-> linkingSubscription,
     isAutoHandlingEnabled |-> isAutoHandlingEnabled,
     isConfigured |-> isConfigured,
     pendingUrl |-> pendingUrl,
     processedUrls |-> processedUrls,
     lastDeepLinkData |-> lastDeepLinkData,
     pendingAttributionUrls |-> pendingAttributionUrls,
     inflight |-> inflight,
     initialQueries |-> initialQueries,
     unsubs |-> unsubs,
     calls |-> <<>>,
     opens |-> <<>>,
     notified |-> <<>>]

Becomes(s) ==
    /\ UNCHANGED <<probe, swift>>
    /\ deepLinkListeners' = s.deepLinkListeners
    /\ deepLinkSubscription' = s.deepLinkSubscription
    /\ universalLinkListeners' = s.universalLinkListeners
    /\ universalLinkSubscription' = s.universalLinkSubscription
    /\ opens' = s.opens
    /\ linkingSubscription' = s.linkingSubscription
    /\ isAutoHandlingEnabled' = s.isAutoHandlingEnabled
    /\ isConfigured' = s.isConfigured
    /\ pendingUrl' = s.pendingUrl
    /\ processedUrls' = s.processedUrls
    /\ lastDeepLinkData' = s.lastDeepLinkData
    /\ pendingAttributionUrls' = s.pendingAttributionUrls
    /\ inflight' = s.inflight
    /\ initialQueries' = s.initialQueries
    /\ unsubs' = s.unsubs
    /\ calls' = s.calls
    /\ notified' = s.notified

Range(seq) == {seq[i] : i \in DOMAIN seq}

\* Set.prototype.add / delete on an insertion-ordered set.
SetAdd(seq, x) == IF x \in Range(seq) THEN seq ELSE Append(seq, x)

SetDelete(seq, x) == SelectSeq(seq, LAMBDA y : y # x)

\* Map.prototype.set
MapSet(m, k, v) == [x \in DOMAIN m \cup {k} |-> IF x = k THEN v ELSE m[x]]

(***************************************************************************)
(* Listeners                                                               *)
(***************************************************************************)

\* Calling listener l with data.  reg names the listener that the calling
\* addDeepLinkListener is registering, and is "" when the caller is the loop
\* of notifyDeepLinkListeners.  The result is the state after the call and
\* whether the call threw.  The body of addDeepLinkListener is unfolded for
\* the listener that LR registers (that listener is neither LR nor
\* throwing, so its own call ends the nesting).
InvokeListener(s, l, data, reg) ==
    LET called ==
            [s EXCEPT !.calls =
                Append(@, [to |-> l, data |-> data, reg |-> reg])]
    IN  IF l \in Throwing THEN [s |-> called, threw |-> TRUE]
        ELSE IF l = Registrar
        THEN LET added ==
                     [called EXCEPT
                         !.deepLinkListeners = SetAdd(@, Registered),
                         !.deepLinkSubscription = TRUE]
                 replayed ==
                     IF added.lastDeepLinkData # <<>>
                     THEN [added EXCEPT
                              !.calls = Append(@,
                                  [to |-> Registered,
                                   data |-> added.lastDeepLinkData[1],
                                   reg |-> Registered])]
                     ELSE added
             IN  [s |-> [replayed EXCEPT !.unsubs = @ \cup {Registered}],
                  threw |-> FALSE]
        ELSE [s |-> called, threw |-> FALSE]

\* An addDeepLinkListener that replays the cached record to every
\* registered listener.
addDeepLinkListener_ReplayAll(s, l) ==
    LET added ==
            [s EXCEPT !.deepLinkListeners = SetAdd(@, l),
                      !.deepLinkSubscription = TRUE,
                      !.unsubs = @ \cup {l}]
    IN  [s |-> IF added.lastDeepLinkData # <<>>
               THEN [added EXCEPT
                        !.calls =
                            [i \in 1..Len(added.deepLinkListeners) |->
                                [to |-> added.deepLinkListeners[i],
                                 data |-> added.lastDeepLinkData[1],
                                 reg |-> l]]]
               ELSE added,
         threw |-> FALSE]

\* addDeepLinkListener(listener).  threw: the replay of the cached record
\* threw, so the caller got no unsubscribe function.
addDeepLinkListener(s, l) ==
    LET added ==
            [s EXCEPT !.deepLinkListeners = SetAdd(@, l),
                      !.deepLinkSubscription = TRUE]
        r == IF added.lastDeepLinkData # <<>>
             THEN InvokeListener(added, l, added.lastDeepLinkData[1], l)
             ELSE [s |-> added, threw |-> FALSE]
    IN  IF r.threw THEN r
        ELSE [s |-> [r.s EXCEPT !.unsubs = @ \cup {l}], threw |-> FALSE]

\* The function addDeepLinkListener returned for l.
unsubscribe(s, l) ==
    LET left == SetDelete(s.deepLinkListeners, l)
    IN  [s EXCEPT !.deepLinkListeners = left,
                  !.deepLinkSubscription =
                      IF left = <<>> THEN FALSE ELSE @]

\* addUniversalLinkListener(listener)
addUniversalLinkListener(s, l) ==
    [s EXCEPT !.universalLinkListeners = SetAdd(@, l),
              !.universalLinkSubscription = TRUE,
              !.unsubs = @ \cup {l}]

\* The function addUniversalLinkListener returned for l.
unsubscribeUniversal(s, l) ==
    LET left == SetDelete(s.universalLinkListeners, l)
    IN  [s EXCEPT !.universalLinkListeners = left,
                  !.universalLinkSubscription =
                      IF left = <<>> THEN FALSE ELSE @]

\* A universal-link handler that drops the event of a url whose pipeline
\* is suspended or that is in the ledger.
RECURSIVE UniversalLinkReceived_SkipProcessed(_, _, _)
UniversalLinkReceived_SkipProcessed(s, i, data) ==
    IF \/ data.url \in s.pendingAttributionUrls
       \/ data.url \in DOMAIN s.processedUrls
    THEN s
    ELSE IF i > Len(s.universalLinkListeners) THEN s
    ELSE LET r == InvokeListener(s, s.universalLinkListeners[i], data, "")
         IN  IF r.threw THEN r.s
             ELSE UniversalLinkReceived_SkipProcessed(r.s, i + 1, data)

\* The handler of the native LinkzlyUniversalLinkReceived event, from the
\* i-th listener on: this.universalLinkListeners.forEach(l => l(data)).  A
\* listener that throws ends the loop.
RECURSIVE UniversalLinkReceived(_, _, _)
UniversalLinkReceived(s, i, data) ==
    IF i > Len(s.universalLinkListeners) THEN s
    ELSE LET r == InvokeListener(s, s.universalLinkListeners[i], data, "")
         IN  IF r.threw THEN r.s
             ELSE UniversalLinkReceived(r.s, i + 1, data)

\* A removeAllListeners that forgets the cached record as well.
removeAllListeners_ClearsLast(s) ==
    [s EXCEPT !.deepLinkListeners = <<>>,
              !.universalLinkListeners = <<>>,
              !.deepLinkSubscription = FALSE,
              !.universalLinkSubscription = FALSE,
              !.linkingSubscription = FALSE,
              !.lastDeepLinkData = <<>>]

removeAllListeners(s) ==
    [s EXCEPT !.deepLinkListeners = <<>>,
              !.universalLinkListeners = <<>>,
              !.deepLinkSubscription = FALSE,
              !.universalLinkSubscription = FALSE,
              !.linkingSubscription = FALSE]

\* A loop without the try/catch around the call: the first throw ends it.
RECURSIVE ForEachListener_NoCatch(_, _, _)
ForEachListener_NoCatch(s, i, data) ==
    IF i > Len(s.deepLinkListeners) THEN s
    ELSE LET r == InvokeListener(s, s.deepLinkListeners[i], data, "")
         IN  IF r.threw THEN r.s
             ELSE ForEachListener_NoCatch(r.s, i + 1, data)

\* this.deepLinkListeners.forEach(listener => { try { listener(data) } catch
\* ... }), from the i-th element on.  Set.prototype.forEach also visits the
\* elements that are added while it runs.
RECURSIVE ForEachListener(_, _, _)
ForEachListener(s, i, data) ==
    IF i > Len(s.deepLinkListeners) THEN s
    ELSE ForEachListener(
             InvokeListener(s, s.deepLinkListeners[i], data, "").s, i + 1, data)

\* The duplicate test of notifyDeepLinkListeners.
SameAsLast(last, data) ==
    /\ last # <<>>
    /\ last[1].url = data.url
    /\ last[1].path = data.path
    /\ JSONStringify(last[1].parameters) = JSONStringify(data.parameters)
    /\ last[1].smartLinkId = data.smartLinkId
    /\ last[1].clickId = data.clickId

\* notifyDeepLinkListeners(data), called from site ("merged": the end of the
\* try block of processDeepLink, "fallback": its catch block, "native": the
\* native event handler).
notifyDeepLinkListeners(s, data, site) ==
    IF SameAsLast(s.lastDeepLinkData, data)
    THEN [s EXCEPT !.notified =
             Append(@, [site |-> site, data |-> data, sent |-> FALSE])]
    ELSE LET sent ==
                 [s EXCEPT !.lastDeepLinkData = <<data>>,
                           !.notified =
                               Append(@, [site |-> site, data |-> data,
                                          sent |-> TRUE])]
         IN  ForEachListener(sent, 1, data)

(***************************************************************************)
(* Deep-link processing                                                    *)
(***************************************************************************)

cleanupOldProcessedUrls(m, now) ==
    LET keep == {u \in DOMAIN m : ~(now - m[u] > MAX_AGE_MS)}
    IN  [u \in keep |-> m[u]]

\* lastProcessed && (now - lastProcessed) < window, for lastProcessed =
\* m.get(url): undefined and 0 are falsy.
ProcessedWithin(m, url, now, window) ==
    /\ url \in DOMAIN m
    /\ m[url] # 0
    /\ now - m[url] < window

\* A processDeepLink without the check of the deduplication window.
processDeepLink_NoDedup(s, url, now, awaited) ==
    LET swept == [s EXCEPT !.processedUrls = cleanupOldProcessedUrls(@, now)]
        marked ==
            [swept EXCEPT
                !.processedUrls = MapSet(@, url, now),
                !.pendingAttributionUrls = @ \cup {url}]
    IN  IF ~marked.isConfigured
        THEN [marked EXCEPT !.pendingUrl = url,
                            !.pendingAttributionUrls = @ \ {url}]
        ELSE [marked EXCEPT
                !.inflight = @ (+) SetToBag({[url |-> url, awaited |-> awaited]})]

\* A processDeepLink whose window includes its end: a url marked exactly
\* URL_PROCESSING_DEDUP_WINDOW_MS ago is still skipped.
processDeepLink_InclusiveWindow(s, url, now, awaited) ==
    LET swept == [s EXCEPT !.processedUrls = cleanupOldProcessedUrls(@, now)]
        marked ==
            [swept EXCEPT
                !.processedUrls = MapSet(@, url, now),
                !.pendingAttributionUrls = @ \cup {url}]
    IN  IF ProcessedWithin(swept.processedUrls, url, now,
                           URL_PROCESSING_DEDUP_WINDOW_MS + 1)
        THEN [swept EXCEPT !.opens = Append(@, "skipped: processed recently")]
        ELSE IF ~marked.isConfigured
        THEN [marked EXCEPT !.pendingUrl = url,
                            !.pendingAttributionUrls = @ \ {url}]
        ELSE [marked EXCEPT
                !.inflight = @ (+) SetToBag({[url |-> url, awaited |-> awaited]})]

\* A processDeepLink that uses the window of the native event handler.
processDeepLink_NativeWindow(s, url, now, awaited) ==
    LET swept == [s EXCEPT !.processedUrls = cleanupOldProcessedUrls(@, now)]
        marked ==
            [swept EXCEPT
                !.processedUrls = MapSet(@, url, now),
                !.pendingAttributionUrls = @ \cup {url}]
    IN  IF ProcessedWithin(swept.processedUrls, url, now,
                           NATIVE_EVENT_DEDUP_WINDOW_MS)
        THEN [swept EXCEPT !.opens = Append(@, "skipped: processed recently")]
        ELSE IF ~marked.isConfigured
        THEN [marked EXCEPT !.pendingUrl = url,
                            !.pendingAttributionUrls = @ \ {url}]
        ELSE [marked EXCEPT
                !.inflight = @ (+) SetToBag({[url |-> url, awaited |-> awaited]})]

\* A processDeepLink that leaves the url of an unconfigured SDK in
\* pendingAttributionUrls when it stores it in pendingUrl.
processDeepLink_StashStaysPending(s, url, now, awaited) ==
    LET swept == [s EXCEPT !.processedUrls = cleanupOldProcessedUrls(@, now)]
        marked ==
            [swept EXCEPT
                !.processedUrls = MapSet(@, url, now),
                !.pendingAttributionUrls = @ \cup {url}]
    IN  IF ProcessedWithin(swept.processedUrls, url, now,
                           URL_PROCESSING_DEDUP_WINDOW_MS)
        THEN [swept EXCEPT !.opens = Append(@, "skipped: processed recently")]
        ELSE IF ~marked.isConfigured
        THEN [marked EXCEPT !.pendingUrl = url]
        ELSE [marked EXCEPT
                !.inflight = @ (+) SetToBag({[url |-> url, awaited |-> awaited]})]

\* A processDeepLink that sweeps the ledger only after the window check, so
\* a suppressed call sweeps nothing.
processDeepLink_SweepsWhenProceeding(s, url, now, awaited) ==
    LET swept == [s EXCEPT !.processedUrls = cleanupOldProcessedUrls(@, now)]
        marked ==
            [swept EXCEPT
                !.processedUrls = MapSet(@, url, now),
                !.pendingAttributionUrls = @ \cup {url}]
    IN  IF ProcessedWithin(s.processedUrls, url, now,
                           URL_PROCESSING_DEDUP_WINDOW_MS)
        THEN [s EXCEPT !.opens = Append(@, "skipped: processed recently")]
        ELSE IF ~marked.isConfigured
        THEN [marked EXCEPT !.pendingUrl = url,
                            !.pendingAttributionUrls = @ \ {url}]
        ELSE [marked EXCEPT
                !.inflight = @ (+) SetToBag({[url |-> url, awaited |-> awaited]})]

\* processDeepLink(url) up to its first await (or its return).  awaited:
\* "none", or the autoTrackAppOpens option of the configure call that awaits
\* the returned promise.
processDeepLink(s, url, now, awaited) ==
    LET swept == [s EXCEPT !.processedUrls = cleanupOldProcessedUrls(@, now)]
        marked ==
            [swept EXCEPT
                !.processedUrls = MapSet(@, url, now),
                !.pendingAttributionUrls = @ \cup {url}]
    IN  IF ProcessedWithin(swept.processedUrls, url, now,
                           URL_PROCESSING_DEDUP_WINDOW_MS)
        THEN [swept EXCEPT !.opens = Append(@, "skipped: processed recently")]
        ELSE IF ~marked.isConfigured
        THEN [marked EXCEPT !.pendingUrl = url,
                            !.pendingAttributionUrls = @ \ {url}]
        ELSE [marked EXCEPT
                !.inflight = @ (+) SetToBag({[url |-> url, awaited |-> awaited]})]

\* The automatic app-open tracking at the end of configure; autoTrack is
\* options.autoTrackAppOpens ("unset", "true" or "false").
TrackOpen(s, autoTrack) ==
    IF autoTrack # "false" THEN [s EXCEPT !.opens = Append(@, "trackOpen")]
    ELSE s

\* The rest of configure once processDeepLink(pendingUrl) has settled.
AfterReplay(s, autoTrack) == TrackOpen([s EXCEPT !.pendingUrl = NULL], autoTrack)

\* A success path that runs the catch block as well.
ResumeResolved_ThenFallback(s, p, nativeData) ==
    LET mergedData == mergeDeepLinkData(ParsedOf[p.url], nativeData)
        told == notifyDeepLinkListeners(s, mergedData, "merged")
        done == [told EXCEPT !.pendingAttributionUrls = @ \ {p.url}]
        again == notifyDeepLinkListeners(done, ParsedOf[p.url], "fallback")
    IN  IF p.awaited # "none" THEN AfterReplay(again, p.awaited) ELSE again

\* A success path that gives up when no listener is left.
ResumeResolved_CancelledUnheard(s, p, nativeData) ==
    IF s.deepLinkListeners = <<>> THEN s
    ELSE LET mergedData == mergeDeepLinkData(ParsedOf[p.url], nativeData)
             told == notifyDeepLinkListeners(s, mergedData, "merged")
             done == [told EXCEPT !.pendingAttributionUrls = @ \ {p.url}]
         IN  IF p.awaited # "none" THEN AfterReplay(done, p.awaited) ELSE done

\* processDeepLink(url) after handleUniversalLink resolved with nativeData
\* (<<>> for null): merge, enrich (a pass-through), notify, unmark.
ResumeResolved(s, p, nativeData) ==
    LET immediateData == ParsedOf[p.url]
        mergedData ==
            mergeDeepLinkData(immediateData, nativeData)
        told == notifyDeepLinkListeners(s, mergedData, "merged")
        done == [told EXCEPT !.pendingAttributionUrls = @ \ {p.url}]
    IN  IF p.awaited # "none" THEN AfterReplay(done, p.awaited) ELSE done

\* A catch block that drops the link without notifying.
ResumeRejected_Silent(s, p) ==
    LET unmarked == [s EXCEPT !.pendingAttributionUrls = @ \ {p.url}]
    IN  IF p.awaited # "none" THEN AfterReplay(unmarked, p.awaited) ELSE unmarked

\* A catch block that notifies but leaves the url in
\* pendingAttributionUrls.
ResumeRejected_StaysPending(s, p) ==
    LET fallbackData == ParsedOf[p.url]
        told == notifyDeepLinkListeners(s, fallbackData, "fallback")
    IN  IF p.awaited # "none" THEN AfterReplay(told, p.awaited) ELSE told

\* processDeepLink(url) after handleUniversalLink rejected: the catch block.
ResumeRejected(s, p) ==
    LET unmarked == [s EXCEPT !.pendingAttributionUrls = @ \ {p.url}]
        fallbackData == ParsedOf[p.url]
        told == notifyDeepLinkListeners(unmarked, fallbackData, "fallback")
    IN  IF p.awaited # "none" THEN AfterReplay(told, p.awaited) ELSE told

\* A native event handler without the check of pendingAttributionUrls.
DeepLinkReceived_NoPendingCheck(s, data, now) ==
    IF Truthy(data.url)
       /\ ProcessedWithin(s.processedUrls, data.url, now,
                          NATIVE_EVENT_DEDUP_WINDOW_MS)
    THEN s
    ELSE notifyDeepLinkListeners(
             IF Truthy(data.url)
             THEN [s EXCEPT !.processedUrls = MapSet(@, data.url, now)]
             ELSE s,
             data, "native")

\* A native event handler without the check of the 2000 ms window.
DeepLinkReceived_NoWindow(s, data, now) ==
    IF Truthy(data.url) /\ data.url \in s.pendingAttributionUrls THEN s
    ELSE notifyDeepLinkListeners(
             IF Truthy(data.url)
             THEN [s EXCEPT !.processedUrls = MapSet(@, data.url, now)]
             ELSE s,
             data, "native")

\* A native event handler that looks at pendingAttributionUrls only for a
\* url inside the 2000 ms window.
DeepLinkReceived_PendingInsideWindow(s, data, now) ==
    IF Truthy(data.url)
       /\ ProcessedWithin(s.processedUrls, data.url, now,
                          NATIVE_EVENT_DEDUP_WINDOW_MS)
    THEN [s EXCEPT !.opens = Append(@, "skipped: already processed")]
    ELSE notifyDeepLinkListeners(
             IF Truthy(data.url)
             THEN [s EXCEPT !.processedUrls = MapSet(@, data.url, now)]
             ELSE s,
             data, "native")

\* A native event handler whose window includes its end.
DeepLinkReceived_InclusiveWindow(s, data, now) ==
    IF Truthy(data.url) /\ data.url \in s.pendingAttributionUrls
    THEN [s EXCEPT !.opens = Append(@, "skipped: being processed")]
    ELSE IF Truthy(data.url)
            /\ ProcessedWithin(s.processedUrls, data.url, now,
                               NATIVE_EVENT_DEDUP_WINDOW_MS + 1)
    THEN [s EXCEPT !.opens = Append(@, "skipped: already processed")]
    ELSE notifyDeepLinkListeners(
             IF Truthy(data.url)
             THEN [s EXCEPT !.processedUrls = MapSet(@, data.url, now)]
             ELSE s,
             data, "native")

\* A native event handler that marks the url again when it skips it inside
\* the window.
DeepLinkReceived_SkipExtendsWindow(s, data, now) ==
    IF Truthy(data.url) /\ data.url \in s.pendingAttributionUrls
    THEN [s EXCEPT !.opens = Append(@, "skipped: being processed")]
    ELSE IF Truthy(data.url)
            /\ ProcessedWithin(s.processedUrls, data.url, now,
                               NATIVE_EVENT_DEDUP_WINDOW_MS)
    THEN [s EXCEPT !.opens = Append(@, "skipped: already processed"),
                   !.processedUrls = MapSet(@, data.url, now)]
    ELSE notifyDeepLinkListeners(
             IF Truthy(data.url)
             THEN [s EXCEPT !.processedUrls = MapSet(@, data.url, now)]
             ELSE s,
             data, "native")

\* A native event handler that consults and writes the ledger whether or
\* not the record has a url.
DeepLinkReceived_UnguardedUrl(s, data, now) ==
    IF data.url \in s.pendingAttributionUrls
    THEN [s EXCEPT !.opens = Append(@, "skipped: being processed")]
    ELSE IF ProcessedWithin(s.processedUrls, data.url, now,
                            NATIVE_EVENT_DEDUP_WINDOW_MS)
    THEN [s EXCEPT !.opens = Append(@, "skipped: already processed")]
    ELSE notifyDeepLinkListeners(
             [s EXCEPT !.processedUrls = MapSet(@, data.url, now)],
             data, "native")

\* The handler of the native LinkzlyDeepLinkReceived event.
DeepLinkReceived(s, data, now) ==
    IF Truthy(data.url) /\ data.url \in s.pendingAttributionUrls
    THEN [s EXCEPT !.opens = Append(@, "skipped: being processed")]
    ELSE IF Truthy(data.url)
            /\ ProcessedWithin(s.processedUrls, data.url, now,
                               NATIVE_EVENT_DEDUP_WINDOW_MS)
    THEN [s EXCEPT !.opens = Append(@, "skipped: already processed")]
    ELSE notifyDeepLinkListeners(
             IF Truthy(data.url)
             THEN [s EXCEPT !.processedUrls = MapSet(@, data.url, now)]
             ELSE s,
             data, "native")

setupAutomaticDeepLinking(s) ==
    [s EXCEPT !.initialQueries = @ + 1,
              !.linkingSubscription = TRUE]

setAutoHandleDeepLinks(s, enabled) ==
    IF s.isAutoHandlingEnabled = enabled THEN s
    ELSE IF enabled
    THEN setupAutomaticDeepLinking([s EXCEPT !.isAutoHandlingEnabled = TRUE])
    ELSE [s EXCEPT !.isAutoHandlingEnabled = FALSE,
                   !.linkingSubscription = FALSE]

\* configure(...) after the native configure resolved.  autoHandle is
\* options.autoHandleDeepLinks and autoTrack options.autoTrackAppOpens:
\* "unset", "true" or "false".
ConfigureResolved(s, autoHandle, autoTrack, now) ==
    LET configured == [s EXCEPT !.isConfigured = TRUE]
        chosen ==
            IF autoHandle = "unset" THEN configured
            ELSE [configured EXCEPT
                     !.isAutoHandlingEnabled = (autoHandle = "true")]
        setup ==
            IF chosen.isAutoHandlingEnabled
            THEN setupAutomaticDeepLinking(chosen)
            ELSE chosen
        replayed == processDeepLink(setup, setup.pendingUrl, now, autoTrack)
    IN  IF ~Truthy(setup.pendingUrl) THEN TrackOpen(setup, autoTrack)
        ELSE IF replayed.inflight # setup.inflight THEN replayed
        ELSE AfterReplay(replayed, autoTrack)

(***************************************************************************)
(* Initial state and actions.  An action takes the bounds b of the         *)
(* specification it is used in.                                            *)
(***************************************************************************)

\* The url whose reports and notifications are recorded, for the properties
\* of one link click.
Observed == U1

\* A primary-path pipeline of url is suspended at its native call.
InFlight(url) == \E p \in BagToSet(inflight) : p.url = url

Count(seq, kind) == Len(SelectSeq(seq, LAMBDA r : r.kind = kind))

\* reports after a report of url through channel kind ("P": primary path,
\* "N": native event).
Reported(b, url, kind) ==
    IF b.observe /\ url = Observed
    THEN Append(reports, [kind |-> kind, at |-> clock, conf |-> isConfigured,
                          busy |-> InFlight(url)])
    ELSE reports

\* delivered after a step that ended in state s and acted for url through
\* channel kind.
Delivered(b, s, url, kind) ==
    IF b.observe /\ url = Observed /\ \E n \in Range(s.notified) : n.sent
    THEN Append(delivered, [kind |-> kind, heard |-> s.calls # <<>>])
    ELSE delivered

\* The state s a step ends in, with those entries of its log of trackOpen
\* calls, configure rejections and skipped urls kept that b asks for.
Logged(b, s) ==
    [s EXCEPT !.opens = SelectSeq(@, LAMBDA entry : entry \in b.logged)]

\* The state of a new LinkzlySDK instance.
Constructed ==
    /\ clock = 1
    /\ ticks = 0
    /\ deepLinkListeners = <<>>
    /\ deepLinkSubscription = FALSE
    /\ universalLinkListeners = <<>>
    /\ universalLinkSubscription = FALSE
    /\ registrations = <<>>
    /\ opens = <<>>
    /\ linkingSubscription = FALSE
    /\ isAutoHandlingEnabled = TRUE
    /\ isConfigured = FALSE
    /\ pendingUrl = NULL
    /\ processedUrls = <<>>
    /\ lastDeepLinkData = <<>>
    /\ pendingAttributionUrls = {}
    /\ inflight = EmptyBag
    /\ configuring = 0
    /\ initialQueries = 0
    /\ unsubs = {}
    /\ calls = <<>>
    /\ notified = <<>>
    /\ reports = <<>>
    /\ delivered = <<>>
    /\ eventEmitter = FALSE
    /\ hasListeners = FALSE
    /\ pendingEvents = <<>>
    /\ raisedEvents = <<>>
    /\ sentEvents = <<>>

Init ==
    /\ Constructed
    /\ probe = <<>>

\* Time passes between two events.
Tick(b) ==
    /\ ticks < b.maxTicks
    /\ \E d \in b.deltas : clock' = clock + d
    /\ ticks' = ticks + 1
    /\ calls' = <<>>
    /\ notified' = <<>>
    /\ opens' = <<>>
    /\ UNCHANGED <<deepLinkListeners, deepLinkSubscription,
                   universalLinkListeners, universalLinkSubscription,
                   registrations,
                   linkingSubscription, isAutoHandlingEnabled, isConfigured,
                   pendingUrl, processedUrls, lastDeepLinkData,
                   pendingAttributionUrls, inflight, configuring,
                   initialQueries, unsubs, reports, delivered, probe, swift>>

\* The application calls configure; the native configure call is started.
\* (The options are read only after that call has resolved.)
ConfigureCall(b) ==
    /\ configuring < b.maxConfigure
    /\ configuring' = configuring + 1
    /\ Becomes(Sdk)
    /\ UNCHANGED <<clock, ticks, registrations, reports, delivered>>

\* The native configure call of a configure call resolves.
ConfigureResolveOf(b, autoHandle, autoTrack) ==
    LET s == ConfigureResolved(Sdk, autoHandle, autoTrack, clock)
    IN  /\ configuring > 0
        /\ BagCardinality(s.inflight) <= b.maxInflight
        /\ s.initialQueries <= b.maxQueries
        /\ configuring' = configuring - 1
        /\ Becomes(Logged(b, s))
        /\ UNCHANGED <<clock, ticks, registrations, reports, delivered>>

ConfigureResolveWith(b, autoHandle) ==
    \E autoTrack \in b.autoTrack : ConfigureResolveOf(b, autoHandle, autoTrack)

ConfigureResolve(b) ==
    \E autoHandle \in b.autoHandle : ConfigureResolveWith(b, autoHandle)

\* A configure that goes on after its native call rejected.
ConfigureReject_Continues(b) == ConfigureResolve(b)

\* The native configure call rejects: configure rejects at its first line.
ConfigureReject(b) ==
    /\ configuring > 0
    /\ configuring' = configuring - 1
    /\ Becomes(Logged(b, [Sdk EXCEPT !.opens = <<"configure rejected">>]))
    /\ UNCHANGED <<clock, ticks, registrations, reports, delivered>>

SetAutoHandleDeepLinks(b) ==
    \E enabled \in BOOLEAN :
        LET s == setAutoHandleDeepLinks(Sdk, enabled)
        IN  /\ s.initialQueries <= b.maxQueries
            /\ Becomes(s)
            /\ UNCHANGED <<clock, ticks, registrations, configuring, reports,
              delivered>>

\* A primary-path report of url: processDeepLink(url) is called.
PrimaryReport(b, s0, url) ==
    LET s == processDeepLink(s0, url, clock, "none")
    IN  /\ b.observe /\ url = Observed => Count(reports, "P") < b.maxPrimary
        /\ BagCardinality(s.inflight) <= b.maxInflight
        /\ Becomes(Logged(b, s))
        /\ reports' = Reported(b, url, "P")
        /\ UNCHANGED <<clock, ticks, registrations, configuring, delivered>>

\* A Linking.getInitialURL() promise resolves (cold start).
InitialURLResolve(b) ==
    /\ initialQueries > 0
    /\ PrimaryReport(b, [Sdk EXCEPT !.initialQueries = @ - 1], InitialURL)

\* The Linking 'url' event fires (warm start).
LinkingUrlEvent(b) ==
    /\ linkingSubscription
    /\ \E url \in b.urls : PrimaryReport(b, Sdk, url)

\* The native module emits LinkzlyDeepLinkReceived with payload data.
NativeEventOf(b, url, data) ==
    LET s == DeepLinkReceived(Sdk, data, clock)
    IN  /\ deepLinkSubscription
        /\ b.observe /\ url = Observed => Count(reports, "N") < b.maxNative
        /\ Becomes(Logged(b, s))
        /\ reports' = Reported(b, url, "N")
        /\ delivered' = Delivered(b, s, url, "N")
        /\ UNCHANGED <<clock, ticks, registrations, configuring>>

\* The payloads the native layer sends for url, as an event and as the
\* result of handleUniversalLink.
EventsOf(b, url) ==
    DeepLinkEvents[url]
        \cup (IF b.raw THEN {RawRecord(url)} ELSE {})
        \cup (IF b.urlless THEN {UrlLessRecord(url)} ELSE {})

ResultsOf(b, url) ==
    HandleLinkResults[url] \cup (IF b.raw THEN {<<RawRecord(url)>>} ELSE {})

NativeDeepLinkEvent(b) ==
    \E url \in b.urls : \E data \in EventsOf(b, url) :
        NativeEventOf(b, url, data)

\* handleUniversalLink of the suspended processDeepLink call p resolves
\* with nativeData.
ResolveOf(b, p, nativeData) ==
    LET s == ResumeResolved([Sdk EXCEPT !.inflight = @ (-) SetToBag({p})],
                            p, nativeData)
    IN  /\ p \in BagToSet(inflight)
        /\ Becomes(Logged(b, s))
        /\ delivered' = Delivered(b, s, p.url, "P")
        /\ UNCHANGED <<clock, ticks, registrations, configuring, reports>>

HandleLinkResolve(b) ==
    \E p \in BagToSet(inflight) :
        \E nativeData \in ResultsOf(b, p.url) :
            ResolveOf(b, p, nativeData)

\* handleUniversalLink of the suspended processDeepLink call p rejects.
RejectOf(b, p) ==
    LET s == ResumeRejected([Sdk EXCEPT !.inflight = @ (-) SetToBag({p})], p)
    IN  /\ p \in BagToSet(inflight)
        /\ Becomes(Logged(b, s))
        /\ delivered' = Delivered(b, s, p.url, "P")
        /\ UNCHANGED <<clock, ticks, registrations, configuring, reports>>

HandleLinkReject(b) == \E p \in BagToSet(inflight) : RejectOf(b, p)

\* registrations after a call of add...Listener(l) on channel ch; returned:
\* the call returned its unsubscribe function.
Registering(b, ch, l, returned) ==
    IF b.track
    THEN Append(registrations,
                [ch |-> ch, l |-> l, returned |-> returned, undone |-> FALSE])
    ELSE registrations

AddOf(b, l) ==
    /\ b.track => Len(registrations) < b.maxRegistrations
    /\ Becomes(addDeepLinkListener(Sdk, l).s)
    /\ registrations' =
           Registering(b, "deep", l, ~addDeepLinkListener(Sdk, l).threw)
    /\ UNCHANGED <<clock, ticks, configuring, reports, delivered>>

AddDeepLinkListener(b) == \E l \in b.listeners : AddOf(b, l)

\* The application calls a function that addDeepLinkListener or
\* addUniversalLinkListener returned.
Unsubscribe(b) ==
    \E l \in unsubs :
        /\ Becomes(IF l \in UniversalListeners
                   THEN unsubscribeUniversal(Sdk, l)
                   ELSE unsubscribe(Sdk, l))
        /\ UNCHANGED <<clock, ticks, registrations, configuring, reports,
              delivered>>

\* The application calls the function that the i-th add...Listener call
\* returned.
UnsubscribeOf(b, i) ==
    /\ b.track
    /\ i \in DOMAIN registrations
    /\ registrations[i].returned
    /\ Becomes(IF registrations[i].ch = "universal"
               THEN unsubscribeUniversal(Sdk, registrations[i].l)
               ELSE unsubscribe(Sdk, registrations[i].l))
    /\ registrations' = [registrations EXCEPT ![i].undone = TRUE]
    /\ UNCHANGED <<clock, ticks, configuring, reports, delivered>>

CallUnsubscribe(b) == \E i \in DOMAIN registrations : UnsubscribeOf(b, i)

RemoveAllListeners(b) ==
    /\ Becomes(removeAllListeners(Sdk))
    /\ registrations' =
           [i \in DOMAIN registrations |->
               [registrations[i] EXCEPT !.undone = TRUE]]
    /\ UNCHANGED <<clock, ticks, configuring, reports, delivered>>

AddUniversalOf(b, l) ==
    /\ b.track => Len(registrations) < b.maxRegistrations
    /\ Becomes(addUniversalLinkListener(Sdk, l))
    /\ registrations' = Registering(b, "universal", l, TRUE)
    /\ UNCHANGED <<clock, ticks, configuring, reports, delivered>>

AddUniversalLinkListener(b) == \E l \in b.universal : AddUniversalOf(b, l)

\* The native module emits LinkzlyUniversalLinkReceived with payload data.
UniversalEventOf(b, data) ==
    /\ universalLinkSubscription
    /\ Becomes(UniversalLinkReceived(Sdk, 1, data))
    /\ UNCHANGED <<clock, ticks, registrations, configuring, reports,
                   delivered>>

UniversalLinkEvent(b) ==
    \E url \in b.urls : \E data \in UniversalLinkEvents[url] :
        UniversalEventOf(b, data)

NextOf(b) ==
    \/ Tick(b)
    \/ ConfigureCall(b)
    \/ ConfigureResolve(b)
    \/ ConfigureReject(b)
    \/ SetAutoHandleDeepLinks(b)
    \/ InitialURLResolve(b)
    \/ LinkingUrlEvent(b)
    \/ NativeDeepLinkEvent(b)
    \/ HandleLinkResolve(b)
    \/ HandleLinkReject(b)
    \/ AddDeepLinkListener(b)
    \/ Unsubscribe(b)
    \/ RemoveAllListeners(b)

\* The deduplication pipeline: both urls, one listener, time steps inside
\* and outside both windows.
Pipeline ==
    [urls |-> URLs, listeners |-> {"L1"},
     universal |-> {}, raw |-> FALSE, track |-> FALSE, maxRegistrations |-> MaxRegistrations,
     autoHandle |-> {"unset", "true", "false"}, autoTrack |-> {"unset"},
     maxTicks |-> MaxTicks, maxConfigure |-> MaxConfigure,
     maxInflight |-> MaxInflight, maxQueries |-> MaxQueries,
     maxPrimary |-> MaxPrimary, maxNative |-> MaxNative,
     deltas |-> {1999, 5000}, observe |-> FALSE, logged |-> {},
     urlless |-> FALSE]

Next == NextOf(Pipeline)

Spec == Init /\ [][Next]_vars

(***************************************************************************)
(* The fallback path and the single notification of a pipeline run.        *)
(***************************************************************************)

\* The calls made by the loop of notifyDeepLinkListeners in a step are one
\* call with data to each registered listener, in registration order.
HeardByAll(data) ==
    SelectSeq(calls', LAMBDA c : c.reg = "") =
        [i \in 1..Len(deepLinkListeners') |->
            [to |-> deepLinkListeners'[i], data |-> data, reg |-> ""]]

\* C4 as stated: when the native handle-link call of a pipeline for u
\* fails, the registered listeners receive the locally parsed record of u
\* and u leaves pendingAttributionUrls.
C4_FallbackAlwaysHeard ==
    [][\A p \in BagToSet(inflight) :
          RejectOf(Pipeline, p) =>
              /\ p.url \notin pendingAttributionUrls'
              /\ HeardByAll(parseUrlToDeepLinkData(p.url))]_vars

\* C4 amended: when the native handle-link call of a pipeline for u fails,
\* notifyDeepLinkListeners is called once, from the catch block, with the
\* locally parsed record of u; the listeners receive that record unless it
\* is identical to the last delivered record, lastDeepLinkData is the parsed
\* record afterwards, and u leaves pendingAttributionUrls.
C4_Fallback ==
    [][\A p \in BagToSet(inflight) :
          RejectOf(Pipeline, p) =>
              LET parsed == parseUrlToDeepLinkData(p.url)
              IN  /\ p.url \notin pendingAttributionUrls'
                  /\ Len(notified') = 1
                  /\ notified'[1].site = "fallback"
                  /\ notified'[1].data = parsed
                  /\ lastDeepLinkData' = <<parsed>>
                  /\ IF lastDeepLinkData = <<parsed>>
                     THEN calls' = <<>>
                     ELSE HeardByAll(parsed)]_vars

\* A failed native call has just delivered the parsed record to a listener.
C4_Witness ==
    /\ Len(notified) = 1
    /\ notified[1].site = "fallback"
    /\ notified[1].sent
    /\ calls # <<>>
    /\ calls[1].data = parseUrlToDeepLinkData(notified[1].data.url)
    /\ notified[1].data.url \notin pendingAttributionUrls

\* C5: a url stashed before configuration is replayed when configure
\* completes: the completion of configure starts a pipeline for the stashed
\* url, whatever the time between the stash and the completion.
C5_StashReplayed ==
    [][\A autoHandle \in Pipeline.autoHandle :
          (ConfigureResolveWith(Pipeline, autoHandle) /\ Truthy(pendingUrl))
              => InFlight(pendingUrl)']_vars

\* C6: a pipeline run calls notifyDeepLinkListeners at most once; the
\* success path calls it from the try block only, the failure path from
\* the catch block only.
C6_NotifiesOnce ==
    [][\A p \in BagToSet(inflight) :
          /\ (\E nativeData \in HandleLinkResults[p.url] :
                 ResolveOf(Pipeline, p, nativeData))
                 => /\ Len(notified') <= 1
                    /\ \A i \in DOMAIN notified' : notified'[i].site = "merged"
          /\ RejectOf(Pipeline, p)
                 => /\ Len(notified') <= 1
                    /\ \A i \in DOMAIN notified' :
                           notified'[i].site = "fallback"]_vars

\* A pipeline run has just ended with its one notification, from the try
\* block.
C6_Witness ==
    /\ Len(notified) = 1
    /\ notified[1].site = "merged"
    /\ notified[1].sent
    /\ calls # <<>>

\* C17: a pipeline that has started its native call runs to completion when
\* that call settles, with or without listeners: notifyDeepLinkListeners is
\* called with the merged record (the call resolved) or with the parsed
\* record (it rejected), the url leaves pendingAttributionUrls and
\* lastDeepLinkData holds that record, which a listener registered next
\* receives; a step that changes the suspended pipelines or
\* pendingAttributionUrls is not a removal of listeners.
C17_RunsToCompletion ==
    [][/\ inflight' # inflight =>
           \A p \in BagToSet(inflight) :
             inflight' = inflight (-) SetToBag({p}) =>
                 /\ \A nativeData \in HandleLinkResults[p.url] :
                        ResolveOf(Pipeline, p, nativeData)
                            => /\ Len(notified') = 1
                               /\ notified'[1].site = "merged"
                               /\ notified'[1].data =
                                      mergeDeepLinkData(ParsedOf[p.url],
                                                        nativeData)
                               /\ p.url \notin pendingAttributionUrls'
                               /\ lastDeepLinkData' = <<notified'[1].data>>
                 /\ RejectOf(Pipeline, p)
                        => /\ Len(notified') = 1
                           /\ notified'[1].site = "fallback"
                           /\ notified'[1].data = ParsedOf[p.url]
                           /\ p.url \notin pendingAttributionUrls'
                           /\ lastDeepLinkData' = <<ParsedOf[p.url]>>
       /\ (inflight' # inflight \/ pendingAttributionUrls' # pendingAttributionUrls)
             => ~(RemoveAllListeners(Pipeline) \/ Unsubscribe(Pipeline))
       /\ \A l \in Pipeline.listeners :
             (lastDeepLinkData # <<>> /\ AddOf(Pipeline, l))
                 => \E i \in DOMAIN calls' :
                        calls'[i].to = l /\ calls'[i].data = lastDeepLinkData[1]]_vars

\* A pipeline run has just completed with its notification sent while no
\* listener was registered any more, although one had been.
C17_Witness ==
    /\ Len(notified) = 1
    /\ notified[1].site \in {"merged", "fallback"}
    /\ notified[1].sent
    /\ unsubs # {}
    /\ deepLinkListeners = <<>>
    /\ calls = <<>>
    /\ lastDeepLinkData = <<notified[1].data>>

\* C19: whenever isAutoHandleDeepLinksEnabled() returns false, the SDK
\* holds no subscription to the Linking 'url' event.
C19_DisabledMeansUnsubscribed ==
    ~isAutoHandlingEnabled => ~linkingSubscription

(***************************************************************************)
(* One link click: the reports of the url Observed through the primary     *)
(* path ("P") and the native event ("N") are recorded in reports, the       *)
(* notifications that reached notifyDeepLinkListeners unsuppressed for it   *)
(* in delivered.                                                           *)
(***************************************************************************)

Click == [Pipeline EXCEPT !.deltas = Deltas, !.observe = TRUE]

NextClick == NextOf(Click)

SpecClick == Init /\ [][NextClick]_vars

\* Nothing of the click is outstanding: no pipeline of the url is suspended
\* and the url is not stashed for configure.
Settled == ~InFlight(Observed) /\ pendingUrl # Observed

Kinds == [i \in DOMAIN reports |-> reports[i].kind]

\* The later of two reports falls in the window the earlier one opened:
\* a native event while the pipeline of the primary report is suspended or
\* less than 2000 ms after the primary report, a primary report less than
\* 5000 ms after the native event.
InWindow ==
    IF reports[1].kind = "P"
    THEN reports[2].busy
         \/ reports[2].at - reports[1].at < NATIVE_EVENT_DEDUP_WINDOW_MS
    ELSE reports[2].at - reports[1].at < URL_PROCESSING_DEDUP_WINDOW_MS

C2_ExactlyOnceAnyState ==
    (/\ Kinds = <<"P", "P">>
     /\ reports[2].at - reports[1].at < URL_PROCESSING_DEDUP_WINDOW_MS
     /\ Settled)
        => Len(delivered) = 1

\* C2 amended: with the SDK configured when the first report arrives, two
\* primary reports of the same url, the second less than 5000 ms after the
\* first, lead to exactly one notification.
C2_ExactlyOnce ==
    (/\ Kinds = <<"P", "P">>
     /\ reports[1].conf
     /\ reports[2].at - reports[1].at < URL_PROCESSING_DEDUP_WINDOW_MS
     /\ Settled)
        => Len(delivered) = 1

\* The second report came 4999 ms after the first, whose pipeline has
\* delivered.
C2_Witness ==
    /\ Kinds = <<"P", "P">>
    /\ reports[1].conf
    /\ reports[2].at - reports[1].at = 4999
    /\ Settled
    /\ Len(delivered) = 1
    /\ delivered[1].heard

\* C3 as stated: a primary report followed less than 2000 ms later by a
\* native event for the same url leads to exactly one notification, the
\* one of the primary path.
C3_PrimaryWinsAnyState ==
    (/\ Kinds = <<"P", "N">>
     /\ reports[2].at - reports[1].at < NATIVE_EVENT_DEDUP_WINDOW_MS
     /\ Settled)
        => (Len(delivered) = 1 /\ delivered[1].kind = "P")

\* C3 amended: with the SDK configured when the primary report arrives, a
\* primary report followed less than 2000 ms later by a native event for
\* the same url leads to exactly one notification, the one of the primary
\* path, whether the event arrives while the pipeline is suspended or after
\* it has finished.
C3_PrimaryWins ==
    (/\ Kinds = <<"P", "N">>
     /\ reports[1].conf
     /\ reports[2].at - reports[1].at < NATIVE_EVENT_DEDUP_WINDOW_MS
     /\ Settled)
        => (Len(delivered) = 1 /\ delivered[1].kind = "P")

\* The native event came 1999 ms after the primary report and after its
\* pipeline had finished; only the primary path has delivered.
C3_Witness ==
    /\ Kinds = <<"P", "N">>
    /\ reports[1].conf
    /\ reports[2].at - reports[1].at = 1999
    /\ ~reports[2].busy
    /\ Settled
    /\ delivered = <<[kind |-> "P", heard |-> TRUE]>>

(***************************************************************************)
(* Listener fan-out: one url, a plain listener, a throwing listener and a  *)
(* listener that registers another one from its callback.                  *)
(***************************************************************************)

Fan ==
    [Pipeline EXCEPT !.urls = {U1}, !.listeners = Listeners,
                     !.deltas = {2000}]

NextFan == NextOf(Fan)

SpecFan == Init /\ [][NextFan]_vars

\* The candidate has the url, path, smartLinkId and clickId of the last
\* delivered record, and deep-equal parameters.
DeepSame(last, data) ==
    /\ last # <<>>
    /\ last[1].url = data.url
    /\ last[1].path = data.path
    /\ DeepEqual(last[1].parameters, data.parameters)
    /\ last[1].smartLinkId = data.smartLinkId
    /\ last[1].clickId = data.clickId

\* C7: notifyDeepLinkListeners invokes no listener and leaves
\* lastDeepLinkData unchanged if and only if the candidate has the url,
\* path, smartLinkId and clickId of lastDeepLinkData and deep-equal
\* parameters; otherwise it sets lastDeepLinkData to the candidate and
\* invokes the listeners.
C7_SuppressedIffDeepEqual ==
    [][\A i \in DOMAIN notified' :
          IF DeepSame(lastDeepLinkData, notified'[i].data)
          THEN calls' = <<>> /\ lastDeepLinkData' = lastDeepLinkData
          ELSE /\ lastDeepLinkData' = <<notified'[i].data>>
               /\ HeardByAll(notified'[i].data)]_vars

\* C8: an addDeepLinkListener call made when a record has been delivered
\* invokes the listener it registers exactly once, with the cached record,
\* before it returns, and invokes no other listener: every invocation made
\* during the call is the replay of a registration to the listener that
\* registration adds.
C8_ReplayToNewListenerOnly ==
    [][\A l \in Listeners :
          (AddOf(Fan, l) /\ lastDeepLinkData # <<>>)
              => /\ Len(SelectSeq(calls', LAMBDA c : c.reg = l)) = 1
                 /\ \A i \in DOMAIN calls' :
                        /\ calls'[i].to = calls'[i].reg
                        /\ calls'[i].data = lastDeepLinkData[1]]_vars

\* A listener registered after a delivery has just received the cached
\* record; the listener registered before it was not called.
C8_Witness ==
    /\ Len(deepLinkListeners) >= 2
    /\ lastDeepLinkData # <<>>
    /\ notified = <<>>
    /\ calls = <<[to |-> deepLinkListeners[Len(deepLinkListeners)],
                  data |-> lastDeepLinkData[1],
                  reg |-> deepLinkListeners[Len(deepLinkListeners)]]>>

\* C9: when a registered listener throws during a notification, every
\* registered listener is still invoked with the record and
\* lastDeepLinkData is set to that record.
C9_ThrowIsolated ==
    [][\A i \in DOMAIN notified' :
          (notified'[i].sent /\ Range(deepLinkListeners) \cap Throwing # {})
              => /\ lastDeepLinkData' = <<notified'[i].data>>
                 /\ \A l \in Range(deepLinkListeners) :
                        \E j \in DOMAIN calls' :
                            calls'[j] = [to |-> l, data |-> notified'[i].data,
                                         reg |-> ""]]_vars

\* A notification has just called the throwing listener and, after it, a
\* listener registered later.
C9_Witness ==
    /\ Len(notified) = 1
    /\ notified[1].sent
    /\ lastDeepLinkData = <<notified[1].data>>
    /\ \E i, j \in DOMAIN calls :
           /\ i < j
           /\ calls[i].to \in Throwing
           /\ calls[i].reg = ""
           /\ calls[j].reg = ""

\* C10: the listener invocations during a notification that is not
\* suppressed are exactly the registered listeners, in registration order,
\* each invoked once.
C10_EachListenerOnceInOrder ==
    [][\A i \in DOMAIN notified' :
          notified'[i].sent
              => [j \in DOMAIN calls' |-> calls'[j].to] = deepLinkListeners']_vars
\* C12: an exception thrown by a deep-link listener never leaves the SDK:
\* a call of addDeepLinkListener, also one that replays the cached record to
\* the new listener, does not throw and returns its unsubscribe function.
C12_AddAlwaysReturns ==
    [][\A l \in Listeners :
          AddOf(Fan, l) =>
              /\ ~addDeepLinkListener(Sdk, l).threw
              /\ l \in unsubs']_vars

(***************************************************************************)
(* The universal-link channel.                                             *)
(***************************************************************************)

\* One url, one deep-link listener, both universal-link listeners, time
\* steps inside the native event window; the trackOpen calls and the
\* rejections of configure are recorded.
Channels ==
    [Pipeline EXCEPT !.urls = {U1}, !.universal = UniversalListeners,
                     !.deltas = {1999}, !.logged = {"trackOpen", "configure rejected"},
                     !.autoTrack = {"unset", "false"}]

NextChannels ==
    \/ NextOf(Channels)
    \/ AddUniversalLinkListener(Channels)
    \/ UniversalLinkEvent(Channels)

SpecChannels == Init /\ [][NextChannels]_vars

\* C11: when a universal-link listener throws while it is notified of an
\* event, every other universal-link listener registered at that moment is
\* still called with that event.
C11_UniversalThrowIsolated ==
    [][\A data \in UniversalLinkEvents[U1] :
          UniversalEventOf(Channels, data) =>
              \A l \in Range(universalLinkListeners) :
                  \E c \in Range(calls') : c.to = l /\ c.data = data]_vars

C20_RejectedConfigureDoesNothing ==
    [][ConfigureReject(Channels) =>
          /\ UNCHANGED <<isConfigured, isAutoHandlingEnabled, initialQueries,
                         linkingSubscription, pendingUrl, processedUrls,
                         pendingAttributionUrls, inflight, lastDeepLinkData>>
          /\ ~isConfigured => ~isConfigured'
          /\ "trackOpen" \notin Range(opens')
          /\ notified' = <<>>
          /\ calls' = <<>>]_vars

\* A configure call has just been rejected while a url was stashed and the
\* SDK had never been configured.
C20_Witness ==
    /\ opens = <<"configure rejected">>
    /\ ~isConfigured
    /\ pendingUrl = InitialURL
    /\ inflight = EmptyBag

(***************************************************************************)
(* Registrations and the native subscriptions.                             *)
(***************************************************************************)

\* One listener function per channel; every add...Listener call and the
\* function it returned are recorded.
Regs ==
    [Pipeline EXCEPT !.track = TRUE, !.universal = {"V1"}]

NextRegs ==
    \/ AddDeepLinkListener(Regs)
    \/ AddUniversalLinkListener(Regs)
    \/ CallUnsubscribe(Regs)
    \/ RemoveAllListeners(Regs)

SpecRegs == Init /\ [][NextRegs]_vars

\* A registration on channel ch that has not been undone, neither by its
\* own unsubscribe function nor by removeAllListeners.
Outstanding(ch) ==
    \E i \in DOMAIN registrations :
        registrations[i].ch = ch /\ ~registrations[i].undone

\* C13: after any sequence of addDeepLinkListener, addUniversalLinkListener,
\* unsubscribe and removeAllListeners calls, the native subscription of a
\* channel is active exactly while a registration on that channel has not
\* been undone.
C13_ActiveWhileRegistered ==
    /\ deepLinkSubscription <=> Outstanding("deep")
    /\ universalLinkSubscription <=> Outstanding("universal")

(***************************************************************************)
(* Attribution keys in the parameters of a delivered record.               *)
(***************************************************************************)

\* Links whose query carries an attribution id, and a native layer that
\* reports the query parameters as they are.
Raw == [Pipeline EXCEPT !.urls = {U3}, !.raw = TRUE, !.deltas = {5000}]

NextRaw == NextOf(Raw)

SpecRaw == Init /\ [][NextRaw]_vars

\* C14: no record passed to a deep-link listener has one of the keys slid,
\* smartLinkId, cid, clickId in its parameters.
C14_NoAttributionKeyInParameters ==
    \A i \in DOMAIN calls :
        \A k \in ReservedKeys : ~HasKey(calls[i].data.parameters, k)

(***************************************************************************)
(* The cold-start url.                                                     *)
(***************************************************************************)

\* The url that opened the app is reported by Linking.getInitialURL() only;
\* the links that arrive while the app runs are links to another url.  The
\* reports and notifications of the initial url are recorded.
Cold ==
    [Pipeline EXCEPT !.urls = {U2}, !.deltas = {5000}, !.observe = TRUE]

NextCold == NextOf(Cold)

SpecCold == Init /\ [][NextCold]_vars

\* C15: within one process the initial url is delivered to the deep-link
\* listeners at most once, whatever configure and setAutoHandleDeepLinks
\* calls are made and whatever other links are delivered in between.
C15_InitialURLAtMostOnce ==
    Len(SelectSeq(delivered, LAMBDA d : d.heard)) <= 1

(***************************************************************************)
(* Eviction from the ledger after one hour.                                *)
(***************************************************************************)

\* One url, reported again when its ledger entry is just older than
\* MAX_AGE_MS; its reports and notifications are recorded.
Aged ==
    [Pipeline EXCEPT !.urls = {U1}, !.deltas = {MAX_AGE_MS + 1},
                     !.observe = TRUE]

NextAged == NextOf(Aged)

SpecAged == Init /\ [][NextAged]_vars

\* C16: a url that arrives through the primary path again when its ledger
\* entry is older than one hour is not suppressed: it is processed and the
\* deep-link listeners are notified of it, as they were of the first
\* occurrence.
C16_AgedEntryNotSuppressed ==
    /\ Len(reports) = 2
    /\ reports[1].kind = "P" /\ reports[1].conf
    /\ reports[2].kind = "P" /\ reports[2].conf
    /\ reports[2].at - reports[1].at > MAX_AGE_MS
    /\ Settled
    => Len(delivered) = 2

(***************************************************************************)
(* The functions without state: parseUrlToDeepLinkData and                 *)
(* mergeDeepLinkData are called on arguments put together from their       *)
(* parts, so that what the result should be is known from the parts.       *)
(***************************************************************************)

Schemes == {<<"a">>, <<"h", "t">>}
Hosts == {<<"h">>, <<"h", ":", "8">>}
\* The text after the "/" that follows the host.
Segments == {<<"p">>, <<"p", "/", "q">>}
\* The text after "scheme://" of a custom-scheme url: no "/" in it.
Rests == {<<"q">>, <<"q", ".", "r">>}

\* Query pairs, as <<key, value>> in the text of the url: plain ones, a
\* value with a "=" in it, the four attribution keys, an escaped value.
QueryPairs ==
    {<<<<"k">>, <<"v">>>>,
     <<<<"m">>, <<"w">>>>,
     <<<<"k">>, <<"a", "=", "b">>>>,
     <<<<"s", "l", "i", "d">>, <<"7">>>>,
     <<<<"s", "m", "a", "r", "t", "L", "i", "n", "k", "I", "d">>, <<"8">>>>,
     <<<<"c", "i", "d">>, <<"1">>>>,
     <<<<"c", "l", "i", "c", "k", "I", "d">>, <<"2">>>>,
     <<<<"m">>, <<"%", "6", "1">>>>}

MaxPairs == 2

PairLists ==
    UNION {[1..n -> QueryPairs] : n \in 0..MaxPairs}

RECURSIVE JoinPairs(_)
JoinPairs(pairs) ==
    IF pairs = <<>> THEN <<>>
    ELSE Head(pairs)[1] \o <<"=">> \o Head(pairs)[2]
         \o (IF Len(pairs) = 1 THEN <<>> ELSE <<"&">> \o JoinPairs(Tail(pairs)))

QueryOf(pairs) == IF pairs = <<>> THEN <<>> ELSE <<"?">> \o JoinPairs(pairs)

\* Strings whose part before the first "?" is neither of the form
\* scheme://host/path nor of the form scheme://rest.
FormlessUrls ==
    {
     <<>>,    \* the empty string
     <<"x">>,    \* no scheme
     <<"a", ":", "h">>,
     <<":", "/", "/", "h", "/", "p">>,    \* empty scheme
     <<"a", ":", "/", "/">>,    \* nothing after the scheme
     <<"a", ":", "/", "h", "/", "p">>,
     <<"?", "k", "=", "v">>,    \* only a query
     <<"x", "?", "k", "=", "v">>,    \* no scheme, a query
     <<"x", "?", "s", "l", "i", "d", "=", "7", "&", "k", "=", "v">>,
     <<"a", ":", "/", "/", "?", "c", "i", "d", "=", "1">>
    }

\* Urls of the form a://h/p?query whose query is not a list of key=value
\* pairs with keys and values that are not empty.
OddQueryUrls ==
    {
     <<"a", ":", "/", "/", "h", "/", "p", "?">>,    \* empty query
     <<"a", ":", "/", "/", "h", "/", "p", "?", "k">>,    \* no "="
     <<"a", ":", "/", "/", "h", "/", "p", "?", "k", "=">>,    \* empty value
     <<"a", ":", "/", "/", "h", "/", "p", "?", "=", "v">>,    \* empty key
     <<"a", ":", "/", "/", "h", "/", "p", "?", "k", "=", "%">>,    \* malformed escape in the value
     <<"a", ":", "/", "/", "h", "/", "p", "?", "%", "=", "v">>,    \* malformed escape in the key
     <<"a", ":", "/", "/", "h", "/", "p", "?", "k", "=", "v", "?", "m", "=", "w">>,    \* a second "?"
     <<"a", ":", "/", "/", "h", "/", "p", "?", "%", "7", "3", "l", "i", "d", "=", "7">>,    \* escaped key
     <<"a", ":", "/", "/", "h", "/", "p", "?", "k", "=", "v", "&", "&", "m", "=", "w">>,    \* empty pair
     <<"a", ":", "/", "/", "h", "/", "p", "?", "k", "=", "v", "&", "m", "=", "%", "&", "s", "l", "i", "d", "=", "7">>
    }

\* The calls parseUrlToDeepLinkData(url).  form says how url was put
\* together and, for the forms with a path, path is the path its parts give;
\* pairs are the query pairs of the two regular forms.
ParseCalls ==
    {[fn |-> "parseUrlToDeepLinkData", form |-> "standard",
      url |-> sc \o <<":", "/", "/">> \o h \o <<"/">> \o seg \o QueryOf(pairs),
      path |-> <<"/">> \o seg, pairs |-> pairs, out |-> <<>>] :
        sc \in Schemes, h \in Hosts, seg \in Segments, pairs \in PairLists}
    \cup
    {[fn |-> "parseUrlToDeepLinkData", form |-> "custom",
      url |-> sc \o <<":", "/", "/">> \o rest \o QueryOf(pairs),
      path |-> <<"/">> \o rest, pairs |-> pairs, out |-> <<>>] :
        sc \in Schemes, rest \in Rests, pairs \in PairLists}
    \cup
    {[fn |-> "parseUrlToDeepLinkData", form |-> "odd query",
      url |-> u, path |-> <<"/", "p">>, pairs |-> <<>>, out |-> <<>>] :
        u \in OddQueryUrls}
    \cup
    {[fn |-> "parseUrlToDeepLinkData", form |-> "formless",
      url |-> u, path |-> UNDEF, pairs |-> <<>>, out |-> <<>>] :
        u \in FormlessUrls}

\* parseUrlToDeepLinkData(probe.url) returns.
ParseReturns ==
    /\ probe # <<>>
    /\ probe.fn = "parseUrlToDeepLinkData"
    /\ probe.out = <<>>
    /\ probe' = [probe EXCEPT !.out = <<parseUrlToDeepLinkData(probe.url)>>]
    /\ UNCHANGED <<clock, ticks, deepLinkListeners, deepLinkSubscription,
                   universalLinkListeners, universalLinkSubscription,
                   registrations, opens, linkingSubscription,
                   isAutoHandlingEnabled, isConfigured, pendingUrl,
                   processedUrls, lastDeepLinkData, pendingAttributionUrls,
                   inflight, configuring, initialQueries, unsubs, calls,
                   notified, reports, delivered, swift>>

\* The records mergeDeepLinkData is called on.  primary is a parsed record:
\* its url and path are strings that are not empty.  secondary comes from the
\* native module and may lack any field.
PrimaryRecords ==
    [url : {<<"a", ":", "/", "/", "h", "/", "a">>},
     path : {<<"/">>, <<"/", "a">>},
     smartLinkId : {UNDEF, <<"7">>},
     clickId : {UNDEF, <<"1">>},
     parameters : {<<>>,
                   <<<<<<"x">>, <<"1">>>>>>,
                   <<<<<<"x">>, <<"1">>>>, <<<<"y">>, <<"1">>>>>>}]

SecondaryRecords ==
    [url : {UNDEF, <<>>, <<"a", ":", "/", "/", "h", "/", "b">>},
     path : {UNDEF, <<>>, <<"/", "b">>},
     smartLinkId : {UNDEF, NULL, <<>>, <<"8">>},
     clickId : {UNDEF, <<"2">>},
     parameters : {<<>>,
                   <<<<<<"y">>, <<"2">>>>>>,
                   <<<<<<"z">>, <<"2">>>>, <<<<"x">>, <<"2">>>>>>}]

\* The calls mergeDeepLinkData(primary, secondary); secondary is <<>> for
\* null.
MergeCalls ==
    {[fn |-> "mergeDeepLinkData", primary |-> p, secondary |-> s, out |-> <<>>] :
        p \in PrimaryRecords,
        s \in {<<>>} \cup {<<r>> : r \in SecondaryRecords}}

\* mergeDeepLinkData(probe.primary, probe.secondary) returns.
MergeReturns ==
    /\ probe # <<>>
    /\ probe.fn = "mergeDeepLinkData"
    /\ probe.out = <<>>
    /\ probe' = [probe EXCEPT
                   !.out = <<mergeDeepLinkData(probe.primary, probe.secondary)>>]
    /\ UNCHANGED <<clock, ticks, deepLinkListeners, deepLinkSubscription,
                   universalLinkListeners, universalLinkSubscription,
                   registrations, opens, linkingSubscription,
                   isAutoHandlingEnabled, isConfigured, pendingUrl,
                   processedUrls, lastDeepLinkData, pendingAttributionUrls,
                   inflight, configuring, initialQueries, unsubs, calls,
                   notified, reports, delivered, swift>>

(***************************************************************************)
(* LinkzlyDebug: the debug methods and the native methods behind them      *)
(***************************************************************************)
Rejected(code) == [settled |-> "rejected", code |-> code]
Resolved == [settled |-> "resolved", code |-> "none"]
\* A promise rejected with new Error(message): the error has no code.
Thrown == Rejected("none")

\* A debug* method of LinkzlyReactNativeModule (Android).  c.debuggable is
\* what LinkzlySDKDebug.isAppDebuggable returns and c.sdkThrows says whether
\* the LinkzlySDKDebug call after it throws.
AndroidDebug(c, errorCode) ==
    IF ~c.debuggable THEN Rejected("DEBUG_ONLY")
    ELSE IF c.sdkThrows THEN Rejected(errorCode)
    ELSE Resolved

\* A debug* method of LinkzlyReactNativeSwift (iOS).
SwiftDebug(c) == Rejected("DEBUG_ONLY")

debugSetBatchingStrategy(c) ==
    IF c.platform = "android"
    THEN AndroidDebug(c, "DEBUG_SET_STRATEGY_ERROR") ELSE SwiftDebug(c)

debugSetBatchSize(c) ==
    IF c.platform = "android"
    THEN AndroidDebug(c, "DEBUG_SET_BATCH_SIZE_ERROR") ELSE SwiftDebug(c)

debugSetFlushInterval(c) ==
    IF c.platform = "android"
    THEN AndroidDebug(c, "DEBUG_SET_FLUSH_INTERVAL_ERROR") ELSE SwiftDebug(c)

debugSimulateServerConfig(c) ==
    IF c.platform = "android"
    THEN AndroidDebug(c, "DEBUG_SIMULATE_CONFIG_ERROR") ELSE SwiftDebug(c)

debugResetConfig(c) ==
    IF c.platform = "android"
    THEN AndroidDebug(c, "DEBUG_RESET_CONFIG_ERROR") ELSE SwiftDebug(c)

debugPrintConfig(c) ==
    IF c.platform = "android"
    THEN AndroidDebug(c, "DEBUG_PRINT_CONFIG_ERROR") ELSE SwiftDebug(c)

debugGetConfig(c) ==
    IF c.platform = "android"
    THEN AndroidDebug(c, "DEBUG_GET_CONFIG_ERROR") ELSE SwiftDebug(c)

setBatchingStrategy(c) == debugSetBatchingStrategy(c)

setBatchSize(c) ==
    IF c.size < 1 \/ c.size > 100 THEN Thrown
    ELSE debugSetBatchSize(c)

setFlushInterval(c) ==
    IF c.intervalSeconds < 10 \/ c.intervalSeconds > 300 THEN Thrown
    ELSE debugSetFlushInterval(c)

simulateServerConfig(c) ==
    IF c.batchSize < 1 \/ c.batchSize > 100 THEN Thrown
    ELSE IF c.flushInterval < 10 \/ c.flushInterval > 300 THEN Thrown
    ELSE debugSimulateServerConfig(c)

resetDebugConfig(c) == debugResetConfig(c)

printDebugConfig(c) == debugPrintConfig(c)

getDebugConfig(c) == debugGetConfig(c)

DebugMethod(c) ==
    CASE c.method = "setBatchingStrategy" -> setBatchingStrategy(c)
      [] c.method = "setBatchSize" -> setBatchSize(c)
      [] c.method = "setFlushInterval" -> setFlushInterval(c)
      [] c.method = "simulateServerConfig" -> simulateServerConfig(c)
      [] c.method = "resetDebugConfig" -> resetDebugConfig(c)
      [] c.method = "printDebugConfig" -> printDebugConfig(c)
      [] c.method = "getDebugConfig" -> getDebugConfig(c)

Platforms == {"android", "ios"}
Strategies == {"all", "smart", "instant", "custom"}
\* Batch sizes and flush intervals at both ends of the accepted ranges and
\* next to them.
BatchSizes == {0, 1, 100, 101}
FlushIntervals == {9, 10, 300, 301}

\* The build and what the native SDK does, for every debug call.
Builds == [platform : Platforms, debuggable : BOOLEAN, sdkThrows : BOOLEAN]

\* r with the fields of the build added.
OnBuild(r, build) ==
    [f \in DOMAIN r \cup DOMAIN build |->
        IF f \in DOMAIN build THEN build[f] ELSE r[f]]

DebugCalls ==
    {OnBuild(call, build) :
        build \in Builds,
        call \in
            [fn : {"LinkzlyDebug"}, method : {"setBatchingStrategy"},
             strategy : Strategies, out : {<<>>}]
            \cup
            [fn : {"LinkzlyDebug"}, method : {"setBatchSize"},
             size : BatchSizes, out : {<<>>}]
            \cup
            [fn : {"LinkzlyDebug"}, method : {"setFlushInterval"},
             intervalSeconds : FlushIntervals, out : {<<>>}]
            \cup
            [fn : {"LinkzlyDebug"}, method : {"simulateServerConfig"},
             batchSize : BatchSizes, flushInterval : FlushIntervals,
             out : {<<>>}]
            \cup
            [fn : {"LinkzlyDebug"},
             method : {"resetDebugConfig", "printDebugConfig", "getDebugConfig"},
             out : {<<>>}]}

\* The promise of the debug method probe.method settles.
DebugReturns ==
    /\ probe # <<>>
    /\ probe.fn = "LinkzlyDebug"
    /\ probe.out = <<>>
    /\ probe' = [probe EXCEPT !.out = <<DebugMethod(probe)>>]
    /\ UNCHANGED <<clock, ticks, deepLinkListeners, deepLinkSubscription,
                   universalLinkListeners, universalLinkSubscription,
                   registrations, opens, linkingSubscription,
                   isAutoHandlingEnabled, isConfigured, pendingUrl,
                   processedUrls, lastDeepLinkData, pendingAttributionUrls,
                   inflight, configuring, initialQueries, unsubs, calls,
                   notified, reports, delivered, swift>>

InitPure ==
    /\ Constructed
    /\ probe \in ParseCalls \cup MergeCalls \cup DebugCalls

NextPure ==
    \/ ParseReturns
    \/ MergeReturns
    \/ DebugReturns

SpecPure == InitPure /\ [][NextPure]_vars

(***************************************************************************)
(* C21                                                                     *)
(***************************************************************************)
\* The value the contract gives a scalar field of the merged record.
Preferred(fromSecondary, fromPrimary) ==
    IF fromSecondary \in {UNDEF, NULL, <<>>} THEN fromPrimary ELSE fromSecondary

Merged == probe # <<>> /\ probe.fn = "mergeDeepLinkData" /\ probe.out # <<>>

\* C21: mergeDeepLinkData(primary, secondary) returns primary when secondary
\* is absent; otherwise each of url, path, smartLinkId and clickId is
\* secondary's value when that value is present and not empty and primary's
\* value otherwise, and parameters has the keys of both maps, with
\* secondary's value on every key secondary has and primary's on the others.
C21_MergeContract ==
    Merged =>
        LET p == probe.primary
            out == probe.out[1]
        IN  IF probe.secondary = <<>> THEN out = p
            ELSE LET s == probe.secondary[1]
                 IN  /\ out.url = Preferred(s.url, p.url)
                     /\ out.path = Preferred(s.path, p.path)
                     /\ out.smartLinkId = Preferred(s.smartLinkId, p.smartLinkId)
                     /\ out.clickId = Preferred(s.clickId, p.clickId)
                     /\ Keys(out.parameters)
                          = Keys(p.parameters) \cup Keys(s.parameters)
                     /\ \A k \in Keys(s.parameters) :
                          Get(out.parameters, k) = Get(s.parameters, k)
                     /\ \A k \in Keys(p.parameters) \ Keys(s.parameters) :
                          Get(out.parameters, k) = Get(p.parameters, k)

\* A merge where secondary overrides a scalar, leaves another to primary, and
\* the two maps share a key and each have a key of their own.
C21_Witness ==
    /\ Merged
    /\ probe.secondary # <<>>
    /\ Truthy(probe.secondary[1].path)
    /\ ~Truthy(probe.secondary[1].url)
    /\ probe.primary.smartLinkId # UNDEF
    /\ probe.secondary[1].smartLinkId = NULL
    /\ Keys(probe.primary.parameters) \cap Keys(probe.secondary[1].parameters) # {}
    /\ Keys(probe.primary.parameters) \ Keys(probe.secondary[1].parameters) # {}
    /\ Keys(probe.secondary[1].parameters) \ Keys(probe.primary.parameters) # {}

(***************************************************************************)
(* C22 - C25                                                               *)
(***************************************************************************)
Parsed == probe # <<>> /\ probe.fn = "parseUrlToDeepLinkData" /\ probe.out # <<>>

\* The keys of a list of query pairs.
PairKeys(pairs) == {pairs[i][1] : i \in DOMAIN pairs}

\* A list of pairs written without escapes.
Unescaped(pairs) ==
    \A i \in DOMAIN pairs :
        IndexOf(pairs[i][1], "%") = 0 /\ IndexOf(pairs[i][2], "%") = 0

\* The map {k1: v1, k2: v2} of the pairs k1=v1, k2=v2: a later pair of the
\* same key replaces the earlier one.
RECURSIVE MapOf(_)
MapOf(pairs) ==
    IF pairs = <<>> THEN <<>>
    ELSE LET n == Len(pairs)
         IN  Put(MapOf(SubSeq(pairs, 1, n - 1)), pairs[n][1], pairs[n][2])

\* C22: for every url scheme://host/path?k1=v1&k2=v2 whose keys are not
\* attribution keys, parseUrlToDeepLinkData returns the path "/path" and the
\* parameters {k1: v1, k2: v2}; for scheme://rest with no further "/" the
\* path is "/" followed by rest.
C22_RegularFormsParsed ==
    /\ (Parsed /\ probe.form = "standard"
          /\ PairKeys(probe.pairs) \cap ReservedKeys = {}
          /\ Unescaped(probe.pairs))
         => /\ probe.out[1].path = probe.path
            /\ DeepEqual(probe.out[1].parameters, MapOf(probe.pairs))
    /\ (Parsed /\ probe.form = "custom")
         => probe.out[1].path = probe.path

ResultFields == {"url", "path", "parameters", "smartLinkId", "clickId"}

\* C24 as stated: parseUrlToDeepLinkData returns for every string, a url
\* that matches neither path form gives path "/", empty parameters and no
\* ids, and the url of the result is the argument.
C24_FormlessGivesDefaults ==
    Parsed =>
        /\ DOMAIN probe.out[1] = ResultFields
        /\ probe.out[1].url = probe.url
        /\ probe.form = "formless"
             => /\ probe.out[1].path = <<"/">>
                /\ probe.out[1].parameters = <<>>
                /\ probe.out[1].smartLinkId = UNDEF
                /\ probe.out[1].clickId = UNDEF

\* C24, amended: parseUrlToDeepLinkData returns a record for every string
\* and the url of the record is the argument; a url that matches neither
\* path form gives path "/"; parameters are empty and both ids undefined
\* when the string has no "?".
C24_FormlessGivesRootPath ==
    Parsed =>
        /\ DOMAIN probe.out[1] = ResultFields
        /\ probe.out[1].url = probe.url
        /\ probe.form = "formless" => probe.out[1].path = <<"/">>
        /\ IndexOf(probe.url, "?") = 0
             => /\ probe.out[1].parameters = <<>>
                /\ probe.out[1].smartLinkId = UNDEF
                /\ probe.out[1].clickId = UNDEF

\* A string that matches neither path form and has a query has been parsed:
\* the query's parameter and id are in the result.
C24_Witness ==
    /\ Parsed
    /\ probe.form = "formless"
    /\ probe.out[1].path = <<"/">>
    /\ probe.out[1].parameters # <<>>
    /\ probe.out[1].smartLinkId # UNDEF

\* C25: each query pair is split into key and value at its first "=" only:
\* the value keeps every later "=" of the pair.
C25_SplitAtFirstEquals ==
    (Parsed /\ probe.form \in {"standard", "custom"} /\ Unescaped(probe.pairs))
        => \A i \in DOMAIN probe.pairs :
               (/\ IndexOf(probe.pairs[i][2], "=") # 0
                /\ \A j \in DOMAIN probe.pairs :
                       j > i => probe.pairs[j][1] # probe.pairs[i][1])
                   => Get(probe.out[1].parameters, probe.pairs[i][1])
                        = probe.pairs[i][2]

(***************************************************************************)
(* C26                                                                     *)
(***************************************************************************)
Debugged == probe # <<>> /\ probe.fn = "LinkzlyDebug" /\ probe.out # <<>>

\* C26: every debug method of LinkzlyDebug, called on a build that is not
\* debuggable, rejects with the code DEBUG_ONLY whatever its arguments are.
C26_DebugOnlyForEveryArgument ==
    (Debugged /\ ~probe.debuggable)
        => probe.out[1] = Rejected("DEBUG_ONLY")

(***************************************************************************)
(* The two windows at their edges: one url, time steps of one millisecond  *)
(* less than each window and of exactly each window.                       *)
(***************************************************************************)
\* What the handlers log when they skip a url.
Skips ==
    {"skipped: processed recently", "skipped: being processed",
     "skipped: already processed"}

Windows == [Pipeline EXCEPT !.urls = {U1}, !.deltas = Deltas, !.logged = Skips]

NextWindows == NextOf(Windows)

SpecWindows == Init /\ [][NextWindows]_vars

\* A primary-path call for url: the Linking 'url' event fires with it or the
\* Linking.getInitialURL() promise resolves with it.
PrimaryCallIn(b, url) ==
    \/ linkingSubscription /\ PrimaryReport(b, Sdk, url)
    \/ /\ url = InitialURL
       /\ initialQueries > 0
       /\ PrimaryReport(b, [Sdk EXCEPT !.initialQueries = @ - 1], url)

PrimaryCall(url) == PrimaryCallIn(Windows, url)

\* processedUrls has an entry for url that is less than window old.
MarkedWithin(url, window) ==
    url \in DOMAIN processedUrls /\ clock - processedUrls[url] < window

\* The call was suppressed: nothing of the ledger, the pending set, the
\* stash and the suspended calls changed and no listener was notified.
NothingDone ==
    /\ UNCHANGED <<processedUrls, pendingAttributionUrls, pendingUrl,
                   inflight, lastDeepLinkData>>
    /\ notified' = <<>>
    /\ calls' = <<>>

C28_PendingEventDropped ==
    [][\A data \in EventsOf(Windows, U1) :
          (NativeEventOf(Windows, U1, data)
             /\ data.url \in pendingAttributionUrls)
              => /\ NothingDone
                 /\ opens' = <<"skipped: being processed">>]_vars

\* A native event has just been dropped for a url whose primary pipeline is
\* suspended and whose ledger entry is 2000 ms old or older: only the
\* pending check can have dropped it.
C28_Witness ==
    /\ opens = <<"skipped: being processed">>
    /\ U1 \in pendingAttributionUrls
    /\ deepLinkListeners # <<>>
    /\ ~MarkedWithin(U1, NATIVE_EVENT_DEDUP_WINDOW_MS)

\* C29: a native deep-link event for url u at time t', u not in
\* pendingAttributionUrls, is suppressed exactly when processedUrls[u]
\* exists and t' - processedUrls[u] < 2000; otherwise it sets
\* processedUrls[u] = t' and its record is passed to
\* notifyDeepLinkListeners.
C29_NativeWindow ==
    [][\A data \in EventsOf(Windows, U1) :
          (NativeEventOf(Windows, U1, data)
             /\ data.url \notin pendingAttributionUrls)
              => IF MarkedWithin(data.url, 2000)
                 THEN /\ NothingDone
                      /\ opens' = <<"skipped: already processed">>
                 ELSE /\ processedUrls' = MapSet(processedUrls, data.url, clock)
                      /\ Len(notified') = 1
                      /\ notified'[1].site = "native"
                      /\ notified'[1].data = data
                      /\ opens' = <<>>
                      /\ UNCHANGED <<pendingAttributionUrls, inflight>>]_vars

\* A native event has just been accepted exactly 2000 ms after the url was
\* marked: its record, delivered before at time 1, reached
\* notifyDeepLinkListeners again at 2001.
C29_Witness ==
    /\ clock = 1 + NATIVE_EVENT_DEDUP_WINDOW_MS
    /\ Len(notified) = 1
    /\ notified[1].site = "native"
    /\ ~notified[1].sent
    /\ U1 \in DOMAIN processedUrls
    /\ processedUrls[U1] = clock

(***************************************************************************)
(* A primary-path occurrence after a native event: one url, the reports    *)
(* of the url recorded, time steps of the native window, of one            *)
(* millisecond less than the primary window and of the primary window.     *)
(***************************************************************************)
Afterwards ==
    [Windows EXCEPT !.observe = TRUE, !.deltas = {2000, 4999, 5000}]

NextAfterwards == NextOf(Afterwards)

SpecAfterwards == Init /\ [][NextAfterwards]_vars

\* The i-th report of the url was a native event that the handler accepted:
\* it was the first report of the url (nothing was marked or pending), or
\* it is the only native event and its record was delivered.
NativeAccepted(i) ==
    /\ reports[i].kind = "N"
    /\ \/ i = 1
       \/ Count(reports, "N") = 1 /\ Count(delivered, "N") = 1

\* C30: after a native deep-link event for u was accepted at time t', a
\* primary-path occurrence of u that starts less than 5000 ms after t' is
\* suppressed: no native call, no notification.
C30_PrimaryAfterNativeSuppressed ==
    [][(/\ PrimaryCallIn(Afterwards, Observed)
        /\ \E i \in DOMAIN reports :
               /\ NativeAccepted(i)
               /\ clock - reports[i].at < 5000)
          => /\ NothingDone
             /\ opens' = <<"skipped: processed recently">>]_vars

\* A primary-path call has just been skipped 4999 ms after a native event
\* for the url, the first report of the url, was accepted.
C30_Witness ==
    /\ opens = <<"skipped: processed recently">>
    /\ Len(reports) = 2
    /\ reports[1].kind = "N"
    /\ reports[2].kind = "P"
    /\ reports[2].at = clock
    /\ reports[2].at - reports[1].at = 4999
    /\ inflight = EmptyBag

(***************************************************************************)
(* C31                                                                     *)
(***************************************************************************)
\* The urls of the native calls a step started.
Started == {p.url : p \in BagToSet(inflight' (-) inflight)}

\* C31: while the SDK is not configured, a primary-path call for a url that
\* passes the window check starts no native call and notifies nobody; when
\* it returns, the url is the stashed url, whatever was stashed before, and
\* it is not in pendingAttributionUrls.  A configure that resolves replays
\* the stashed url only: a url stashed earlier and replaced is not replayed.
C31_StashedWhileUnconfigured ==
    [][/\ \A u \in Pipeline.urls :
              (PrimaryCallIn(Pipeline, u)
                 /\ ~isConfigured /\ ~MarkedWithin(u, 5000))
                  => /\ pendingUrl' = u
                     /\ u \notin pendingAttributionUrls'
                     /\ UNCHANGED <<inflight, lastDeepLinkData, isConfigured>>
                     /\ notified' = <<>>
                     /\ calls' = <<>>
       /\ ConfigureResolve(Pipeline) => Started \subseteq {pendingUrl}]_vars

\* The SDK is not configured, both urls went through the primary path (no
\* native event was ever accepted) and the second one replaced the first in
\* the stash.
C31_Witness ==
    /\ ~isConfigured
    /\ lastDeepLinkData = <<>>
    /\ pendingUrl = U2
    /\ U1 \in DOMAIN processedUrls
    /\ U2 \in DOMAIN processedUrls
    /\ pendingAttributionUrls = {}

(***************************************************************************)
(* The sweep of the ledger: both urls, time steps of exactly one hour and  *)
(* of one millisecond more.                                                *)
(***************************************************************************)
Sweep ==
    [Pipeline EXCEPT !.deltas = {MAX_AGE_MS, MAX_AGE_MS + 1}, !.logged = Skips]

NextSweep == NextOf(Sweep)

SpecSweep == Init /\ [][NextSweep]_vars

\* No entry of the ledger after the step is more than one hour older than
\* the time of the step.
NoneOlderThanAnHour ==
    \A v \in DOMAIN processedUrls' : clock - processedUrls'[v] <= 3600000

\* C32: after every primary-path processing call at time t (cold start,
\* warm start, or the replay of the stashed url by configure), whether it
\* went ahead or was suppressed, processedUrls has no entry more than one
\* hour older than t; a native event removes no entry and changes none but
\* that of its own url.
C32_SweptOnPrimaryPathOnly ==
    [][/\ \A u \in Sweep.urls : PrimaryCallIn(Sweep, u) => NoneOlderThanAnHour
       /\ (ConfigureResolve(Sweep) /\ Truthy(pendingUrl)) => NoneOlderThanAnHour
       /\ \A u \in Sweep.urls : \A data \in EventsOf(Sweep, u) :
              NativeEventOf(Sweep, u, data)
                  => /\ DOMAIN processedUrls \subseteq DOMAIN processedUrls'
                     /\ \A v \in DOMAIN processedUrls \ {u} :
                            processedUrls'[v] = processedUrls[v]]_vars

\* A suppressed primary-path call has just swept the ledger: U1 was marked
\* when it was stashed, its entry is gone, and the call for U2 was skipped.
C32_Witness ==
    /\ opens = <<"skipped: processed recently">>
    /\ pendingUrl = U1
    /\ U1 \notin DOMAIN processedUrls
    /\ U2 \in DOMAIN processedUrls
    /\ clock = 1 + MAX_AGE_MS + 1

(***************************************************************************)
(* Overlapping pipelines: one url, a time step of the primary window, and  *)
(* one more suspended processDeepLink call than elsewhere, so that a       *)
(* second call for the url can start while the first is suspended.         *)
(***************************************************************************)
Overlap ==
    [Pipeline EXCEPT !.urls = {U1}, !.deltas = {URL_PROCESSING_DEDUP_WINDOW_MS},
                     !.maxInflight = MaxInflight + 1]

NextOverlap == NextOf(Overlap)

SpecOverlap == Init /\ [][NextOverlap]_vars

\* C33: whenever no processDeepLink call is suspended at its native call,
\* pendingAttributionUrls is empty.
C33_PendingEmptyWhenIdle ==
    inflight = EmptyBag => pendingAttributionUrls = {}

\* The catch block of the last suspended call has just run: its fallback
\* record went to notifyDeepLinkListeners and nothing is suspended.
C33_Witness ==
    /\ inflight = EmptyBag
    /\ notified # <<>>
    /\ notified[1].site = "fallback"
    /\ pendingAttributionUrls = {}
    /\ U1 \in DOMAIN processedUrls

\* C34: whenever a processDeepLink call for url u is suspended at its native
\* call, u is in pendingAttributionUrls.
C34_SuspendedMeansPending ==
    \A p \in BagToSet(inflight) : p.url \in pendingAttributionUrls

(***************************************************************************)
(* A suppressed occurrence between two accepted ones: one url, its reports *)
(* recorded, two time steps, of 1999 ms and of 3001 ms (5000 ms together). *)
(***************************************************************************)
Between ==
    [Windows EXCEPT !.observe = TRUE, !.maxTicks = MaxTicks + 1,
                    !.deltas = {1999, 3001}]

NextBetween == NextOf(Between)

SpecBetween == Init /\ [][NextBetween]_vars

\* C35: an occurrence of url u that is suppressed by a ledger check, a
\* primary-path call inside the 5000 ms window or a native event for a
\* pending url or inside the 2000 ms window, changes neither processedUrls
\* nor pendingAttributionUrls nor lastDeepLinkData: the windows are not
\* extended by it.
C35_SuppressedChangesNoLedger ==
    [][/\ (PrimaryCallIn(Between, Observed) /\ MarkedWithin(Observed, 5000))
            => UNCHANGED <<processedUrls, pendingAttributionUrls,
                           lastDeepLinkData>>
       /\ \A data \in EventsOf(Between, Observed) :
              (/\ NativeEventOf(Between, Observed, data)
               /\ \/ Observed \in pendingAttributionUrls
                  \/ MarkedWithin(Observed, 2000))
                  => UNCHANGED <<processedUrls, pendingAttributionUrls,
                                 lastDeepLinkData>>]_vars

\* The url was processed through the primary path at time 1, a native
\* event for it was suppressed 1999 ms later, and a primary-path call
\* exactly 5000 ms after the first went ahead: the suppressed event did not
\* move the window.
C35_Witness ==
    /\ Len(reports) = 3
    /\ reports[1].kind = "P" /\ reports[1].at = 1 /\ reports[1].conf
    /\ reports[2].kind = "N" /\ reports[2].at = 2000 /\ ~reports[2].busy
    /\ reports[3].kind = "P" /\ reports[3].at = 5001
    /\ Len(delivered) = 1
    /\ processedUrls[Observed] = 5001
    /\ InFlight(Observed)

(***************************************************************************)
(* Native events whose record has no url.                                  *)
(***************************************************************************)
Anonymous ==
    [Pipeline EXCEPT !.urls = {U1}, !.urlless = TRUE, !.deltas = {1999},
                     !.logged = Skips]

NextAnonymous == NextOf(Anonymous)

SpecAnonymous == Init /\ [][NextAnonymous]_vars

\* C36: a native deep-link event whose record has no url is not skipped by
\* the pending check nor by the 2000 ms window and leaves processedUrls
\* (and pendingAttributionUrls) unchanged; it reaches
\* notifyDeepLinkListeners, where it is delivered unless it equals
\* lastDeepLinkData.
C36_UrlLessSkipsLedger ==
    [][\A u \in Anonymous.urls :
          NativeEventOf(Anonymous, u, UrlLessRecord(u))
              => /\ UNCHANGED <<processedUrls, pendingAttributionUrls>>
                 /\ opens' = <<>>
                 /\ notified' =
                        <<[site |-> "native", data |-> UrlLessRecord(u),
                           sent |-> ~SameAsLast(lastDeepLinkData,
                                                UrlLessRecord(u))]>>]_vars

\* A url-less event was delivered while the url of the same link was
\* pending and marked at this very instant.
C36_Witness ==
    /\ Len(notified) = 1
    /\ notified[1].data = UrlLessRecord(U1)
    /\ notified[1].sent
    /\ calls # <<>>
    /\ U1 \in pendingAttributionUrls
    /\ MarkedWithin(U1, NATIVE_EVENT_DEDUP_WINDOW_MS)

(***************************************************************************)
(* The cached record.                                                      *)
(***************************************************************************)

\* The records of the notifications of a step that were not suppressed.
SentIn(log) == SelectSeq(log, LAMBDA n : n.sent)

\* C37: once set, lastDeepLinkData is never absent again; after every step
\* it is the record of the step's last notification that was not
\* suppressed, and unchanged when the step has none (removeAllListeners
\* included); addDeepLinkListener(l) with a cached record calls l at once
\* with that record, also when every listener was removed before.
C37_CachedRecordKept ==
    [][/\ lastDeepLinkData # <<>> => lastDeepLinkData' # <<>>
       /\ lastDeepLinkData' =
              IF SentIn(notified') # <<>>
              THEN <<SentIn(notified')[Len(SentIn(notified'))].data>>
              ELSE lastDeepLinkData
       /\ \A l \in Fan.listeners :
              (AddOf(Fan, l) /\ lastDeepLinkData # <<>>)
                  => /\ calls' # <<>>
                     /\ calls'[1] = [to |-> l, data |-> lastDeepLinkData[1],
                                     reg |-> l]]_vars

\* A listener was called with the cached record by its own registration
\* after removeAllListeners: the SDK is configured with automatic handling
\* on, and only removeAllListeners leaves such an SDK without its Linking
\* subscription.
C37_Witness ==
    /\ isConfigured /\ isAutoHandlingEnabled /\ ~linkingSubscription
    /\ lastDeepLinkData # <<>>
    /\ deepLinkListeners = <<"L1">>
    /\ calls = <<[to |-> "L1", data |-> lastDeepLinkData[1], reg |-> "L1"]>>
    /\ notified = <<>>

(***************************************************************************)
(* Registration from inside a listener's callback.                         *)
(***************************************************************************)

\* The calls of a step made to listener l with record data.
CallsTo(log, l, data) ==
    {j \in DOMAIN log : log[j].to = l /\ log[j].data = data}

\* C38: a listener that is registered from inside another listener's
\* callback during the delivery of a notification is called with that
\* notification's record at most once.
C38_RegisteredInsideHeardOnce ==
    [][\A i \in DOMAIN notified' :
          notified'[i].sent
              => \A l \in Fan.listeners :
                     (/\ \A k \in DOMAIN deepLinkListeners :
                             deepLinkListeners[k] # l
                      /\ \E k \in DOMAIN deepLinkListeners' :
                             deepLinkListeners'[k] = l)
                         => Cardinality(CallsTo(calls', l,
                                                notified'[i].data)) <= 1]_vars

(***************************************************************************)
(* Switching automatic handling off.  configure is called without the      *)
(* option or with autoHandleDeepLinks: true, so that isAutoHandlingEnabled *)
(* is false only after setAutoHandleDeepLinks(false).                      *)
(***************************************************************************)
SwitchedOff == [Pipeline EXCEPT !.autoHandle = {"unset", "true"}]

NextSwitchedOff == NextOf(SwitchedOff)

SpecSwitchedOff == Init /\ [][NextSwitchedOff]_vars

\* C39: while isAutoHandlingEnabled is false after
\* setAutoHandleDeepLinks(false), processDeepLink is not called for any
\* url, neither by the Linking 'url' event nor by an initial-URL query
\* that was started before and resolves now.
C39_NoPrimaryCallWhileOff ==
    [][~isAutoHandlingEnabled
          => \A u \in SwitchedOff.urls : ~PrimaryCallIn(SwitchedOff, u)]_vars

(***************************************************************************)
(* The iOS bridge (LinkzlyReactNativeSwift): events raised by the native   *)
(* SDK are sent to the emitter or queued until JS listens.                 *)
(***************************************************************************)
MaxEvents == 3

\* The fields of the bridge, as one record.
Swift ==
    [eventEmitter |-> eventEmitter,
     hasListeners |-> hasListeners,
     pendingEvents |-> pendingEvents,
     sentEvents |-> sentEvents]

SwiftBecomes(s) ==
    /\ eventEmitter' = s.eventEmitter
    /\ hasListeners' = s.hasListeners
    /\ pendingEvents' = s.pendingEvents
    /\ sentEvents' = s.sentEvents
    /\ UNCHANGED <<clock, ticks, deepLinkListeners, deepLinkSubscription,
                   universalLinkListeners, universalLinkSubscription,
                   registrations, opens, linkingSubscription,
                   isAutoHandlingEnabled, isConfigured, pendingUrl,
                   processedUrls, lastDeepLinkData, pendingAttributionUrls,
                   inflight, configuring, initialQueries, unsubs, calls,
                   notified, reports, delivered, probe>>

\* setEventEmitter(emitter)
setEventEmitter(s) == [s EXCEPT !.eventEmitter = TRUE]

\* flushPendingEvents(): without an emitter the guard returns and the queue
\* stays as it is.
flushPendingEvents(s) ==
    IF ~s.eventEmitter THEN s
    ELSE [s EXCEPT !.sentEvents = @ \o s.pendingEvents,
                   !.pendingEvents = <<>>]

\* setHasListeners(value)
setHasListeners(s, value) ==
    LET set == [s EXCEPT !.hasListeners = value]
    IN  IF set.hasListeners THEN flushPendingEvents(set) ELSE set

\* emitOrQueueEvent(name:body:)
emitOrQueueEvent(s, name, body) ==
    IF s.hasListeners /\ s.eventEmitter
    THEN [s EXCEPT !.sentEvents = Append(@, [name |-> name, body |-> body])]
    ELSE [s EXCEPT !.pendingEvents =
                       Append(@, [name |-> name, body |-> body])]

\* The records of the native SDK (DeepLinkData), nil as NULL.
NativeDeepLinks ==
    {[path |-> NULL, parameters |-> <<>>, smartLinkId |-> NULL,
      clickId |-> NULL],
     [path |-> <<"/", "p">>, parameters |-> <<>>,
      smartLinkId |-> <<"s", "1">>, clickId |-> NULL]}

\* The userInfo of the notifications of the native SDK; <<>> for an entry
\* that is missing.
DeepLinkNotifications ==
    [deepLinkData : {<<>>} \cup {<<d>> : d \in NativeDeepLinks},
     url : {<<>>, <<U1>>}]

UniversalLinkNotifications ==
    [url : {<<>>, <<U1>>},
     attributionData : {<<>>, <<<<>>>>}]

\* value ?? ""
OrEmpty(value) == IF value = NULL THEN <<>> ELSE value

\* handleDeepLinkDataReceived(notification): the payload has a url only when
\* the notification has one.
handleDeepLinkDataReceived(s, userInfo) ==
    IF userInfo.deepLinkData = <<>> THEN s
    ELSE LET deepLinkData == userInfo.deepLinkData[1]
             eventData ==
                 [path |-> OrEmpty(deepLinkData.path),
                  parameters |-> deepLinkData.parameters,
                  smartLinkId |-> OrEmpty(deepLinkData.smartLinkId),
                  clickId |-> OrEmpty(deepLinkData.clickId),
                  url |-> IF userInfo.url # <<>> THEN userInfo.url[1]
                          ELSE UNDEF]
         IN  emitOrQueueEvent(s, "LinkzlyDeepLinkReceived", eventData)

\* handleUniversalLinkReceived(notification)
handleUniversalLinkReceived(s, userInfo) ==
    IF userInfo.url = <<>> \/ userInfo.attributionData = <<>> THEN s
    ELSE emitOrQueueEvent(s, "LinkzlyUniversalLinkReceived",
             [url |-> userInfo.url[1],
              attributionData |-> userInfo.attributionData[1]])

\* The events a handler passed to emitOrQueueEvent, in a step from s to t.
RaisedBy(s, t) ==
    IF Len(t.pendingEvents) > Len(s.pendingEvents)
    THEN <<t.pendingEvents[Len(t.pendingEvents)]>>
    ELSE IF Len(t.sentEvents) > Len(s.sentEvents)
    THEN <<t.sentEvents[Len(t.sentEvents)]>>
    ELSE <<>>

\* The Obj-C bridge connects the emitter.
SetEventEmitter ==
    /\ ~eventEmitter
    /\ SwiftBecomes(setEventEmitter(Swift))
    /\ UNCHANGED raisedEvents

\* The Obj-C bridge reports that JS started (value TRUE) or stopped
\* listening: the first listener was added or the last one removed.
SetHasListeners(value) ==
    /\ value # hasListeners
    /\ SwiftBecomes(setHasListeners(Swift, value))
    /\ UNCHANGED raisedEvents

\* The native SDK posts linkzlyDeepLinkDataReceived.
HandleDeepLinkDataReceived ==
    /\ Len(raisedEvents) < MaxEvents
    /\ \E userInfo \in DeepLinkNotifications :
           LET s == handleDeepLinkDataReceived(Swift, userInfo)
           IN  /\ SwiftBecomes(s)
               /\ raisedEvents' = raisedEvents \o RaisedBy(Swift, s)

\* The native SDK posts linkzlyUniversalLinkReceived.
HandleUniversalLinkReceived ==
    /\ Len(raisedEvents) < MaxEvents
    /\ \E userInfo \in UniversalLinkNotifications :
           LET s == handleUniversalLinkReceived(Swift, userInfo)
           IN  /\ SwiftBecomes(s)
               /\ raisedEvents' = raisedEvents \o RaisedBy(Swift, s)

NextBridge ==
    \/ SetEventEmitter
    \/ SetHasListeners(TRUE)
    \/ SetHasListeners(FALSE)
    \/ HandleDeepLinkDataReceived
    \/ HandleUniversalLinkReceived

\* The emitter is connected and JS starts to listen, each sooner or later.
SpecBridgeFair ==
    /\ Init /\ [][NextBridge]_vars
    /\ WF_vars(SetEventEmitter)
    /\ WF_vars(SetHasListeners(TRUE))

\* C40: the events passed to JS are at every moment the first of the events
\* raised, in the order raised and each once; when the emitter is connected
\* and JS listens, the queue is empty; and every event raised is eventually
\* passed to JS, the emitter being connected and JS starting to listen
\* sooner or later in either order.
C40_QueuedEventsEmittedInOrder ==
    /\ [](/\ Len(sentEvents) <= Len(raisedEvents)
          /\ sentEvents = SubSeq(raisedEvents, 1, Len(sentEvents)))
    /\ []((eventEmitter /\ hasListeners) => pendingEvents = <<>>)
    /\ \A n \in 1..MaxEvents :
           (Len(raisedEvents) >= n) ~> (Len(sentEvents) >= n)

====
